---- MODULE Spec2Model ----
(***************************************************************************)
(* Topology analysis, load propagation, metrics, scale-tier resolution and *)
(* architecture validation of the system-design-lab engine.                *)
(*                                                                         *)
(* Numbers.  Latencies, capacities, loads and costs are integers.          *)
(* A probability p in [0,1] that the code obtains as 1 - (product of       *)
(* unavailabilities) is kept exactly as the decimal <<m, e>> of its        *)
(* complement: p = 1 - m * 10^(-e).  Error rates are kept in units of      *)
(* 1/10000 (the code rounds them to 4 decimals).  Propagated loads are     *)
(* exact fractions <<num, den>> in lowest terms.                           *)
(***************************************************************************)
EXTENDS Integers, Sequences, FiniteSets, TLC

VARIABLES
    nodes,           \* canvas store: Node<SystemNodeData>[]
    edges,           \* canvas store: Edge[]
    trafficLoad,     \* simulation store: trafficLoad
    trafficPattern,  \* simulation store: trafficPattern
    activeScenario,  \* the active ScenarioDefinition's id, or NoScenario
    now,             \* the wall clock read by Date.now()
    cur,             \* the latest engine call: function, arguments, result
    prev,            \* the engine call before it, where two calls are compared
    alerts,          \* simulation store: alerts
    loop,            \* the propagateLoad call in progress, or NoLoop
    hook,            \* useSimulation: lastTickRef, with the store's run state
    nodeIdCounter,   \* canvas store module: let nodeIdCounter
    timers,          \* the pending setTimeout callbacks, in the order set
    templateLoads,   \* per loadTemplate call: the template and its nodeIds array
    injections       \* the injectFailure calls made: node and start time

vars == <<nodes, edges, trafficLoad, trafficPattern, activeScenario, now, cur, prev,
          alerts, loop, hook, nodeIdCounter, timers, templateLoads, injections>>

\* ------------------------------------------------------------------------
\* Bounds of the model
\* ------------------------------------------------------------------------
MaxNodes == 3
MaxEdges == 2
MaxEdits == 1
MaxClock == 1
MaxLoadEdges == 3
MaxSpofNodes == 4
MaxSpofEdges == 3
MaxLoopEdges == 3
MaxFlowNodes == 4
MaxFlowEdges == 4
MaxFrameTime == 1500
FrameStep == 100
MaxInjections == 2
MaxFailureTime == 20000
FailureStep == 5000
MaxIdCounter == 3
MaxLoaded == 2
MaxCriticalCount == 2
MaxAdvisoryCount == 2
MaxTemplateLoads == 2
MaxTemplateTime == 2000
TemplateStep == 50

NoScenario == <<>>
NoCall == [fn |-> "none"]
NoLoop == [pc |-> "idle"]
\* useSimulation before its first tick, the simulation store as created.
NoHook == [lastTick |-> 0, isRunning |-> TRUE, simulationSpeed |-> 1]
\* A nullable value is the empty sequence (null) or <<v>>.
Null == <<>>
Some(v) == <<v>>
\* What nodes.find returns when no node matches.
NoNode == [id |-> 0]

\* ------------------------------------------------------------------------
\* Generic helpers
\* ------------------------------------------------------------------------
Range(s) == {s[i] : i \in 1..Len(s)}

Min2(a, b) == IF a <= b THEN a ELSE b
Max2(a, b) == IF a >= b THEN a ELSE b

RECURSIVE SumSeq(_)
SumSeq(s) == IF s = <<>> THEN 0 ELSE Head(s) + SumSeq(Tail(s))

\* Euclid's algorithm; the remainder is bound to its value at every step.
RECURSIVE Gcd(_, _)
Gcd(a, b) ==
    IF b = 0 THEN a
    ELSE CHOOSE g \in {Gcd(b, r) : r \in {a % b}} : TRUE

\* Math.round(n / d) for d > 0: floor(n / d + 1/2), halves round up.
RoundDiv(n, d) == (n \div d) + (IF 2 * (n % d) >= d THEN 1 ELSE 0)

\* Array.prototype.includes on a sequence.
Includes(s, x) == \E i \in 1..Len(s) : s[i] = x

\* [...new Set(s)]: drops later duplicates, keeps first occurrences in order.
RECURSIVE Dedup(_)
Dedup(s) ==
    IF s = <<>> THEN <<>>
    ELSE LET init == Dedup(SubSeq(s, 1, Len(s) - 1))
             last == s[Len(s)]
         IN IF Includes(init, last) THEN init ELSE Append(init, last)

\* ------------------------------------------------------------------------
\* Component catalog (constants/componentDefinitions: COMPONENT_MAP)
\* ------------------------------------------------------------------------
ClientKinds == {"web-client", "mobile-client", "api-consumer"}
LoadBalancingKinds == {"load-balancer", "api-gateway", "cdn", "reverse-proxy", "dns-server"}
ComputeKinds == {"web-server", "microservice", "serverless-function", "container-pod"}
DatabaseKinds == {"postgresql", "mysql", "mongodb", "cassandra", "dynamodb"}
CacheKinds == {"redis-cache", "memcached"}
StorageKinds == DatabaseKinds \cup CacheKinds \cup {"object-storage", "data-warehouse"}
MessagingKinds == {"message-queue", "event-stream", "pub-sub"}
ObservabilityKinds == {"metrics-collector", "log-aggregator", "distributed-tracer"}
NetworkKinds == {"firewall-waf", "vpn-private-network"}

\* AI_COMPONENT_TYPES of types/components.
AI_COMPONENT_TYPES ==
    {"llm-inference", "vector-database", "embedding-service", "ai-gateway",
     "agent-orchestrator", "rag-pipeline", "guardrails", "prompt-cache",
     "model-registry", "feature-store", "tool-executor", "memory-store",
     "model-router", "training-cluster", "drift-detector", "llm-observability"}

isAIComponentType(type) == type \in AI_COMPONENT_TYPES

\* Every ComponentType has a catalog entry; any other string has none.
CatalogKinds ==
    ClientKinds \cup LoadBalancingKinds \cup ComputeKinds \cup StorageKinds
        \cup MessagingKinds \cup ObservabilityKinds \cup NetworkKinds
        \cup AI_COMPONENT_TYPES

\* A kind the engine's own tables name ("api-server") that is no ComponentType:
\* a node of this kind has no catalog entry.
UnknownKind == "api-server"

Category(kind) ==
    CASE kind \in ClientKinds -> "clients"
      [] kind \in LoadBalancingKinds -> "loadbalancing"
      [] kind \in ComputeKinds -> "compute"
      [] kind \in StorageKinds -> "storage"
      [] kind \in MessagingKinds -> "messaging"
      [] kind \in ObservabilityKinds -> "observability"
      [] kind \in NetworkKinds -> "network"
      [] OTHER -> "ai"

\* availabilitySLA is given by its complement <<m, e>>: SLA = 1 - m * 10^(-e).
Profile(thr, lat, fail, scal, unav, cons, cap, cost) ==
    [maxThroughput |-> thr, baseLatency |-> lat, failureRateAtCapacity |-> fail,
     isHorizontallyScalable |-> scal, unavailability |-> unav,
     consistencyModel |-> cons, capAlignment |-> cap,
     costPerInstancePerMonth |-> cost]

KindProfile(kind) ==
    CASE kind \in ClientKinds -> Profile(100000, 0, 0, FALSE, <<1, 3>>, "strong", "CA", 0)
      [] kind \in LoadBalancingKinds -> Profile(50000, 2, 100, TRUE, <<1, 4>>, "strong", "CA", 20)
      [] kind \in ComputeKinds -> Profile(5000, 20, 500, TRUE, <<1, 3>>, "strong", "CA", 50)
      [] kind \in {"postgresql", "mysql"} -> Profile(3000, 10, 1000, FALSE, <<5, 4>>, "strong", "CP", 100)
      [] kind \in {"mongodb", "cassandra", "dynamodb"} -> Profile(8000, 8, 800, TRUE, <<1, 4>>, "eventual", "AP", 120)
      [] kind \in CacheKinds -> Profile(20000, 1, 200, TRUE, <<1, 3>>, "eventual", "AP", 30)
      [] kind \in {"object-storage", "data-warehouse"} -> Profile(10000, 30, 100, TRUE, <<1, 6>>, "causal", "AP", 25)
      [] kind \in MessagingKinds -> Profile(10000, 5, 300, TRUE, <<1, 3>>, "eventual", "AP", 60)
      [] kind \in ObservabilityKinds -> Profile(50000, 1, 100, TRUE, <<1, 2>>, "eventual", "AP", 40)
      [] kind \in NetworkKinds -> Profile(40000, 3, 100, FALSE, <<1, 4>>, "strong", "CA", 35)
      [] OTHER -> Profile(200, 400, 1500, TRUE, <<5, 3>>, "eventual", "AP", 900)

\* COMPONENT_MAP.has(kind)
HasDef(kind) == kind \in CatalogKinds

\* COMPONENT_MAP.get(kind), for a kind with an entry
Def(kind) == [category |-> Category(kind)] @@ KindProfile(kind)

\* ------------------------------------------------------------------------
\* Graph traversal (engine/GraphTraversal)
\* ------------------------------------------------------------------------
\* nodes.find((n) => n.id === id): the first node with that id, or NoNode.
FindNode(ns, id) ==
    IF \E i \in 1..Len(ns) : ns[i].id = id
    THEN ns[CHOOSE i \in 1..Len(ns) :
                /\ ns[i].id = id
                /\ \A j \in 1..(i - 1) : ns[j].id /= id]
    ELSE NoNode

NodeIds(ns) == [i \in 1..Len(ns) |-> ns[i].id]

\* A variant that ignores the configured replica count.
singleReplica(node) == 1

\* node.data.config.replicas || 1
EffReplicas(n) == IF n.replicas = 0 THEN 1 ELSE n.replicas

\* buildAdjacencyList(edges).get(id) || []: the targets of id's edges, in edge order.
RECURSIVE buildAdjacencyList(_, _)
buildAdjacencyList(es, id) ==
    IF es = <<>> THEN <<>>
    ELSE IF Head(es).source = id
         THEN <<Head(es).target>> \o buildAdjacencyList(Tail(es), id)
         ELSE buildAdjacencyList(Tail(es), id)

\* Ids of the nodes with no incoming edge, in node order.
findSourceNodes(ns, es) ==
    LET targets == {es[i].target : i \in 1..Len(es)}
    IN NodeIds(SelectSeq(ns, LAMBDA n : n.id \notin targets))

\* Ids of the nodes with no outgoing edge, in node order.
findSinkNodes(ns, es) ==
    LET sources == {es[i].source : i \in 1..Len(es)}
    IN NodeIds(SelectSeq(ns, LAMBDA n : n.id \notin sources))

\* def?.baseLatency ?? 10
getNodeLatency(n) ==
    IF HasDef(n.componentType) THEN Def(n.componentType).baseLatency ELSE 10

\* The recursive dfs of findCriticalPath.  best = [path, latency] is the pair
\* (bestPath, bestLatency) the closure updates; the result is its new value.
RECURSIVE dfs(_, _, _, _, _, _, _)
RECURSIVE dfsEach(_, _, _, _, _, _, _)
dfs(ns, es, nodeId, path, totalLatency, visited, best) ==
    LET node == FindNode(ns, nodeId)
    IN IF node = NoNode THEN best
       ELSE LET latency == totalLatency + getNodeLatency(node)
                path2 == Append(path, nodeId)
                neighbors == buildAdjacencyList(es, nodeId)
                unvisited == SelectSeq(neighbors, LAMBDA x : x \notin visited)
            IN IF unvisited = <<>>
               THEN IF latency > best.latency
                    THEN [path |-> path2, latency |-> latency]
                    ELSE best
               ELSE dfsEach(ns, es, unvisited, path2, latency, visited, best)

\* for (const next of unvisited) { visited.add(next); dfs(...); visited.delete(next); }
dfsEach(ns, es, todo, path, latency, visited, best) ==
    IF todo = <<>> THEN best
    ELSE dfsEach(ns, es, Tail(todo), path, latency, visited,
                 dfs(ns, es, Head(todo), path, latency,
                     visited \cup {Head(todo)}, best))

\* for (const src of sources) dfs(src, [], 0, new Set([src]))
RECURSIVE dfsSources(_, _, _, _)
dfsSources(ns, es, srcs, best) ==
    IF srcs = <<>> THEN best
    ELSE dfsSources(ns, es, Tail(srcs),
                    dfs(ns, es, Head(srcs), <<>>, 0, {Head(srcs)}, best))

findCriticalPath(ns, es) ==
    LET sources == findSourceNodes(ns, es)
    IN IF sources = <<>> /\ Len(ns) > 0
       THEN [path |-> <<ns[1].id>>, latency |-> getNodeLatency(ns[1])]
       ELSE LET best == dfsSources(ns, es, sources, [path |-> <<>>, latency |-> 0])
            IN IF best.path = <<>> /\ Len(ns) > 0
               THEN [path |-> <<ns[1].id>>, latency |-> getNodeLatency(ns[1])]
               ELSE best

\* The ids a breadth-first search from src reaches along the edges es (the
\* queue visits every node once; only the reached set is used).
RECURSIVE ReachFrom(_, _)
ReachFrom(es, reached) ==
    LET next == reached \cup {es[i].target : i \in {j \in 1..Len(es) : es[j].source \in reached}}
    IN IF next = reached THEN reached ELSE ReachFrom(es, next)

Reachable(es, src) == ReachFrom(es, {src})

\* remainingAdj: the adjacency without the edges from or to nodeId.
RemainingEdges(es, nodeId) ==
    SelectSeq(es, LAMBDA e : e.source /= nodeId /\ e.target /= nodeId)

\* Clients and observability nodes are skipped by both SPOF rules.
SpofExempt(n) ==
    /\ HasDef(n.componentType)
    /\ Def(n.componentType).category \in {"clients", "observability"}

\* The structural test of findSPOFs for one node: removing it cuts a sink
\* off from a source that reached it before.
Disconnects(ns, es, nodeId) ==
    LET sources == Range(findSourceNodes(ns, es)) \ {nodeId}
        sinks == Range(findSinkNodes(ns, es)) \ {nodeId}
        rest == RemainingEdges(es, nodeId)
    IN \E src \in sources : \E sink \in sinks :
          /\ sink \notin Reachable(rest, src)
          /\ sink \in Reachable(es, src)

findSPOFs(ns, es) ==
    IF Len(ns) <= 1 THEN NodeIds(ns)
    ELSE LET structural ==
                 NodeIds(SelectSeq(ns, LAMBDA n :
                     /\ ~SpofExempt(n)
                     /\ ~(n.replicas > 1)
                     /\ Disconnects(ns, es, n.id)))
             critPath == findCriticalPath(ns, es).path
             onPath ==
                 SelectSeq(critPath, LAMBDA nid :
                     LET node == FindNode(ns, nid)
                     IN /\ node /= NoNode
                        /\ ~SpofExempt(node)
                        /\ node.replicas <= 1)
         IN Dedup(structural \o onPath)

\* The first critical-path node with the strictly lowest effective capacity.
RECURSIVE bottleneckScan(_, _, _, _)
bottleneckScan(ns, path, minThroughput, bottleneckId) ==
    IF path = <<>> THEN bottleneckId
    ELSE LET node == FindNode(ns, Head(path))
         IN IF \/ node = NoNode
               \/ ~HasDef(node.componentType)
               \/ Def(node.componentType).category = "clients"
            THEN bottleneckScan(ns, Tail(path), minThroughput, bottleneckId)
            ELSE LET eff == Def(node.componentType).maxThroughput * EffReplicas(node)
                 IN IF minThroughput = Null \/ eff < minThroughput[1]
                    THEN bottleneckScan(ns, Tail(path), Some(eff), Some(Head(path)))
                    ELSE bottleneckScan(ns, Tail(path), minThroughput, bottleneckId)

findBottleneck(ns, criticalPath) ==
    IF criticalPath = <<>> THEN Null
    ELSE bottleneckScan(ns, criticalPath, Null, Null)

\* Map from component type to the ids of its nodes, in node order.
findRedundancyGroups(ns) ==
    [t \in {ns[i].componentType : i \in 1..Len(ns)} |->
        NodeIds(SelectSeq(ns, LAMBDA n : n.componentType = t))]

HasKind(ns, kinds) == \E i \in 1..Len(ns) : ns[i].componentType \in kinds

QueueKinds == {"message-queue", "event-stream", "pub-sub"}

analyzeTopology(ns, es) ==
    IF Len(ns) = 0
    THEN [criticalPath |-> <<>>, criticalPathLatency |-> 0, spofNodeIds |-> <<>>,
          bottleneckNodeId |-> Null, networkHops |-> 0,
          redundancyGroups |-> <<>>,
          hasClients |-> FALSE, hasStorage |-> FALSE,
          hasCaches |-> FALSE, hasQueues |-> FALSE]
    ELSE LET cp == findCriticalPath(ns, es)
         IN [criticalPath |-> cp.path,
             criticalPathLatency |-> cp.latency,
             spofNodeIds |-> findSPOFs(ns, es),
             bottleneckNodeId |-> findBottleneck(ns, cp.path),
             networkHops |-> Max2(0, Len(cp.path) - 1),
             redundancyGroups |-> findRedundancyGroups(ns),
             hasClients |-> HasKind(ns, ClientKinds),
             hasStorage |-> HasKind(ns, StorageKinds),
             hasCaches |-> HasKind(ns, CacheKinds),
             hasQueues |-> HasKind(ns, QueueKinds)]

\* ------------------------------------------------------------------------
\* Decimal complements: <<m, e>> stands for the probability 1 - m * 10^(-e)
\* ------------------------------------------------------------------------
\* m < 10^d, for m >= 0 and d >= 0
RECURSIVE LtPow10(_, _)
LtPow10(m, d) ==
    IF m = 0 THEN TRUE
    ELSE IF d = 0 THEN FALSE
    ELSE LtPow10(m \div 10, d - 1)

\* m * 10^(-e) < 10^(-k)
ComplBelow(u, k) == u[2] > k /\ LtPow10(u[1], u[2] - k)

\* m * 10^(-e) <= 1, for <<m, e>> in lowest terms
ComplAtMostOne(u) == u = <<1, 0>> \/ LtPow10(u[1], u[2])

\* Lowest terms: no trailing zero in m.
RECURSIVE ComplNorm(_)
ComplNorm(u) ==
    IF u[1] > 0 /\ u[1] % 10 = 0 /\ u[2] > 0
    THEN ComplNorm(<<u[1] \div 10, u[2] - 1>>)
    ELSE u

ComplTimes(u, v) == ComplNorm(<<u[1] * v[1], u[2] + v[2]>>)

\* The probability 0 (complement 1) and the ceiling 0.99999.
ProbZero == <<1, 0>>
AvailabilityCeiling == <<1, 5>>

\* ------------------------------------------------------------------------
\* Metrics (engine/MetricsCalculator)
\* ------------------------------------------------------------------------
\* The smallest effective capacity over the non-client critical-path nodes
\* with a catalog entry, or Null (the code's Infinity) when there is none.
RECURSIVE minCapacityScan(_, _, _)
minCapacityScan(ns, path, minCapacity) ==
    IF path = <<>> THEN minCapacity
    ELSE LET node == FindNode(ns, Head(path))
         IN IF \/ node = NoNode
               \/ ~HasDef(node.componentType)
               \/ Def(node.componentType).category = "clients"
            THEN minCapacityScan(ns, Tail(path), minCapacity)
            ELSE LET capacity == Def(node.componentType).maxThroughput * EffReplicas(node)
                 IN IF minCapacity = Null \/ capacity < minCapacity[1]
                    THEN minCapacityScan(ns, Tail(path), Some(capacity))
                    ELSE minCapacityScan(ns, Tail(path), minCapacity)

computeThroughput(ns, topology, load) ==
    IF topology.criticalPath = <<>> THEN 0
    ELSE LET minCapacity == minCapacityScan(ns, topology.criticalPath, Null)
         IN IF minCapacity = Null THEN load ELSE Min2(load, minCapacity[1])

\* Sum of the catalog base latencies of the critical-path nodes.
RECURSIVE pathLatency(_, _)
pathLatency(ns, path) ==
    IF path = <<>> THEN 0
    ELSE LET node == FindNode(ns, Head(path))
         IN (IF node /= NoNode /\ HasDef(node.componentType)
             THEN Def(node.componentType).baseLatency ELSE 0)
            + pathLatency(ns, Tail(path))

\* totalLatency is kept in tenths: the cache factor 0.6 is 6/10.
computeLatency(ns, topology) ==
    IF topology.criticalPath = <<>> THEN [p50 |-> 0, p95 |-> 0, p99 |-> 0]
    ELSE LET total == pathLatency(ns, topology.criticalPath) + topology.networkHops * 2
             tenths == IF HasKind(ns, CacheKinds) THEN total * 6 ELSE total * 10
         IN [p50 |-> RoundDiv(tenths, 10),
             p95 |-> RoundDiv(tenths * 14, 100),
             p99 |-> RoundDiv(tenths * 21, 100)]

\* Product of (1 - availabilitySLA) over the SPOF nodes with a catalog entry.
RECURSIVE unavailabilityProduct(_, _)
unavailabilityProduct(ns, spofIds) ==
    IF spofIds = <<>> THEN <<1, 0>>
    ELSE LET node == FindNode(ns, Head(spofIds))
             rest == unavailabilityProduct(ns, Tail(spofIds))
         IN IF node = NoNode \/ ~HasDef(node.componentType) THEN rest
            ELSE ComplTimes(Def(node.componentType).unavailability, rest)

\* A variant that leaves out the 0.99999 ceiling.
uncappedAvailability(unavailability) == unavailability

\* Math.min(0.99999, 1 - unavailability), as a complement
capAvailability(unavailability) ==
    IF ComplBelow(unavailability, 5) THEN AvailabilityCeiling ELSE unavailability

computeAvailability(ns, topology) ==
    IF Len(ns) = 0 THEN ProbZero
    ELSE IF Len(topology.spofNodeIds) = 0 THEN AvailabilityCeiling
    ELSE capAvailability(unavailabilityProduct(ns, topology.spofNodeIds))

\* The error rate of one node under load, in 1/10000, rounded.
nodeErrorRate(failureRate, load, capacity) ==
    IF load > capacity
    THEN IF load - capacity >= 2 * capacity THEN 10000
         ELSE Min2(10000, failureRate + RoundDiv(5000 * (load - capacity), capacity))
    ELSE IF 5 * load > 4 * capacity
         THEN RoundDiv(failureRate * (5 * load - 4 * capacity), capacity)
         ELSE 0

RECURSIVE maxErrorScan(_, _, _)
maxErrorScan(ns, path, load) ==
    IF path = <<>> THEN 0
    ELSE LET node == FindNode(ns, Head(path))
             rest == maxErrorScan(ns, Tail(path), load)
         IN IF \/ node = NoNode
               \/ ~HasDef(node.componentType)
               \/ Def(node.componentType).category = "clients"
            THEN rest
            ELSE Max2(rest,
                      nodeErrorRate(Def(node.componentType).failureRateAtCapacity, load,
                                    Def(node.componentType).maxThroughput * EffReplicas(node)))

computeErrorRate(ns, topology, load) ==
    IF topology.criticalPath = <<>> THEN 0
    ELSE LET failedOnPath ==
                 \E i \in 1..Len(topology.criticalPath) :
                     LET node == FindNode(ns, topology.criticalPath[i])
                     IN node /= NoNode /\ node.isFailed
         IN IF failedOnPath THEN 10000
            ELSE maxErrorScan(ns, topology.criticalPath, load)

StorageNodes(ns) == SelectSeq(ns, LAMBDA n : n.componentType \in StorageKinds)

computeConsistency(ns) ==
    LET models == {Def(StorageNodes(ns)[i].componentType).consistencyModel :
                       i \in 1..Len(StorageNodes(ns))}
    IN IF StorageNodes(ns) = <<>> THEN "N/A"
       ELSE IF "eventual" \in models THEN "Eventual"
       ELSE IF "causal" \in models THEN "Causal"
       ELSE "Strong"

\* The labels the code joins with " + ", as a sequence.
computeCAPState(ns) ==
    LET st == StorageNodes(ns)
        alignments == Dedup([i \in 1..Len(st) |-> Def(st[i].componentType).capAlignment])
    IN IF st = <<>> THEN <<"N/A">>
       ELSE IF Len(alignments) = 1 THEN alignments
       ELSE IF Includes(alignments, "CP") /\ Includes(alignments, "AP")
            THEN <<"CP + AP (mixed)">>
       ELSE alignments

\* In 1/100.
computeCacheHitRate(ns, topology) ==
    IF ~topology.hasCaches THEN Null
    ELSE LET cacheNodes == SelectSeq(ns, LAMBDA n : n.componentType \in CacheKinds)
             totalReplicas == SumSeq([i \in 1..Len(cacheNodes) |-> EffReplicas(cacheNodes[i])])
         IN Min2(95, 80 + totalReplicas * 2)

\* In 1/100.
computeDBReadWriteRatio(ns) ==
    IF HasKind(ns, StorageKinds \ (CacheKinds \cup {"object-storage"})) THEN Some(80) ELSE Null

computeScalabilityScore(ns, topology) ==
    LET nonClient == SelectSeq(ns, LAMBDA n :
                         HasDef(n.componentType) /\ Def(n.componentType).category /= "clients")
        cnt == Len(nonClient)
        scalable == Len(SelectSeq(nonClient, LAMBDA n : Def(n.componentType).isHorizontallyScalable))
        replicas == SumSeq([i \in 1..cnt |-> EffReplicas(nonClient[i])])
        \* every term is kept over the common denominator cnt
        scaled == 50 * cnt + 20 * scalable
                  + (IF HasKind(ns, {"load-balancer"}) THEN 10 * cnt ELSE 0)
                  + (IF topology.hasCaches THEN 10 * cnt ELSE 0)
                  - 5 * Len(topology.spofNodeIds) * cnt
                  + (IF replicas > cnt THEN Min2(10 * cnt, 5 * (replicas - cnt)) ELSE 0)
    IN IF Len(ns) = 0 \/ cnt = 0 THEN 0
       ELSE Max2(0, Min2(100, RoundDiv(scaled, cnt)))

computeMonthlyCost(ns) ==
    SumSeq([i \in 1..Len(ns) |->
        IF HasDef(ns[i].componentType)
        THEN Def(ns[i].componentType).costPerInstancePerMonth * EffReplicas(ns[i])
        ELSE 0])

computeQueueDepth(ns, topology, load, throughput) ==
    IF ~topology.hasQueues THEN Null
    ELSE Some(RoundDiv(Max2(0, load - throughput), 10))

\* clock is the value Date.now() returns during the call.
computeMetrics(ns, es, load, clock) ==
    LET topology == analyzeTopology(ns, es)
        latency == computeLatency(ns, topology)
        throughput == computeThroughput(ns, topology, load)
    IN [timestamp |-> clock,
        throughput |-> throughput,
        latencyP50 |-> latency.p50,
        latencyP95 |-> latency.p95,
        latencyP99 |-> latency.p99,
        availability |-> computeAvailability(ns, topology),
        errorRate |-> computeErrorRate(ns, topology, load),
        networkHops |-> topology.networkHops,
        consistencyModel |-> computeConsistency(ns),
        cacheHitRate |-> computeCacheHitRate(ns, topology),
        dbReadWriteRatio |-> computeDBReadWriteRatio(ns),
        scalabilityScore |-> computeScalabilityScore(ns, topology),
        monthlyCost |-> computeMonthlyCost(ns),
        queueDepth |-> computeQueueDepth(ns, topology, load, throughput),
        capState |-> computeCAPState(ns)]

\* ------------------------------------------------------------------------
\* Inputs
\* ------------------------------------------------------------------------
\* addNode: a fresh node of the given kind (replicas 1, healthy, us-east-1).
NewNode(id, kind) ==
    [id |-> id, componentType |-> kind, replicas |-> 1, isFailed |-> FALSE,
     region |-> "us-east-1", isAI |-> isAIComponentType(kind)]

\* The node lists of n nodes with ids 1..n whose kinds are taken from kinds.
NodeLists(kinds, n) ==
    {[i \in 1..n |-> NewNode(i, f[i])] : f \in [1..n -> kinds]}

Pairs(n) == {[source |-> a, target |-> b] : a \in 1..n, b \in 1..n}

\* The edge lists of k pairwise different edges between the nodes 1..n;
\* loops says whether an edge may join a node to itself.
EdgeLists(n, k, loops) ==
    {es \in [1..k -> {p \in Pairs(n) : loops \/ p.source /= p.target}] :
        \A i \in 1..k : \A j \in 1..k : i /= j => es[i] /= es[j]}

\* The lists ns with the replica count of at most one node set to 2.
WithOneReplicated(ns) ==
    {ns} \cup {[ns EXCEPT ![i].replicas = 2] : i \in 1..Len(ns)}

\* ------------------------------------------------------------------------
\* SpecTopo: analyzeTopology on a graph whose replica counts the user edits
\* ------------------------------------------------------------------------
TopoKinds == {"web-client", "web-server", "postgresql", "metrics-collector", UnknownKind}

InitTopo ==
    /\ \E n \in 0..MaxNodes : \E k \in 0..MaxEdges :
          /\ nodes \in NodeLists(TopoKinds, n)
          /\ edges \in EdgeLists(n, k, FALSE)
    /\ trafficLoad = 1000
    /\ trafficPattern = "steady"
    /\ activeScenario = NoScenario
    /\ now = 0
    /\ cur = NoCall
    /\ prev = NoCall
    /\ alerts = <<>>
    /\ loop = NoLoop
    /\ hook = NoHook
    /\ nodeIdCounter = Len(nodes)
    /\ timers = <<>>
    /\ templateLoads = <<>>
    /\ injections = <<>>

\* Replicas added since the nodes were placed.
AddedReplicas(ns) == SumSeq([i \in 1..Len(ns) |-> ns[i].replicas - 1])

\* updateNodeConfig(id, { replicas: replicas + 1 }): the user raises a node's
\* replica count in the detail drawer.
UpdateNodeConfig(i) ==
    /\ i \in 1..Len(nodes)
    /\ AddedReplicas(nodes) < MaxEdits
    /\ nodes' = [nodes EXCEPT ![i].replicas = @ + 1]
    /\ UNCHANGED <<edges, trafficLoad, trafficPattern, activeScenario, now, cur, prev, alerts, loop,
                   hook, nodeIdCounter, timers, templateLoads, injections>>

CallAnalyzeTopology ==
    /\ cur' = [fn |-> "analyzeTopology", nodes |-> nodes, edges |-> edges,
               result |-> analyzeTopology(nodes, edges)]
    /\ prev' = cur
    /\ UNCHANGED <<nodes, edges, trafficLoad, trafficPattern, activeScenario, now, alerts, loop,
                   hook, nodeIdCounter, timers, templateLoads, injections>>

NextTopo ==
    \/ \E i \in 1..MaxNodes : UpdateNodeConfig(i)
    \/ CallAnalyzeTopology

SpecTopo == InitTopo /\ [][NextTopo]_vars

\* ------------------------------------------------------------------------
\* SpecMetrics: computeMetrics called repeatedly while the clock runs
\* ------------------------------------------------------------------------
MetricsKinds == {"web-client", "web-server", "postgresql", UnknownKind}
MetricsLoads == {1000, 4000}

InitMetrics ==
    /\ \E n \in 0..MaxNodes : \E k \in 0..MaxEdges : \E ns \in NodeLists(MetricsKinds, n) :
          /\ nodes \in WithOneReplicated(ns)
          /\ edges \in EdgeLists(n, k, FALSE)
    /\ trafficLoad \in MetricsLoads
    /\ trafficPattern = "steady"
    /\ activeScenario = NoScenario
    /\ now = 0
    /\ cur = NoCall
    /\ prev = NoCall
    /\ alerts = <<>>
    /\ loop = NoLoop
    /\ hook = NoHook
    /\ nodeIdCounter = Len(nodes)
    /\ timers = <<>>
    /\ templateLoads = <<>>
    /\ injections = <<>>

\* Time passes.
ClockTick ==
    /\ now < MaxClock
    /\ now' = now + 1
    /\ UNCHANGED <<nodes, edges, trafficLoad, trafficPattern, activeScenario, cur, prev, alerts, loop,
                   hook, nodeIdCounter, timers, templateLoads, injections>>

\* topology is the analysis computeMetrics makes first and derives every
\* figure from.
CallComputeMetrics ==
    /\ cur' = [fn |-> "computeMetrics", nodes |-> nodes, edges |-> edges,
               trafficLoad |-> trafficLoad,
               topology |-> analyzeTopology(nodes, edges),
               result |-> computeMetrics(nodes, edges, trafficLoad, now)]
    /\ prev' = cur
    /\ UNCHANGED <<nodes, edges, trafficLoad, trafficPattern, activeScenario, now, alerts, loop,
                   hook, nodeIdCounter, timers, templateLoads, injections>>

NextMetrics ==
    \/ ClockTick
    \/ CallComputeMetrics

SpecMetrics == InitMetrics /\ [][NextMetrics]_vars

\* ------------------------------------------------------------------------
\* Properties of SpecTopo
\* ------------------------------------------------------------------------
\* prev and cur are two analyzeTopology calls on the same graph except that
\* node i, which had one replica and was reported as a SPOF, now has two.
ReplicaRaisedOnSpof(i) ==
    /\ prev.fn = "analyzeTopology"
    /\ cur.fn = "analyzeTopology"
    /\ i \in 1..Len(prev.nodes)
    /\ prev.nodes[i].replicas = 1
    /\ Includes(prev.result.spofNodeIds, prev.nodes[i].id)
    /\ cur.nodes = [prev.nodes EXCEPT ![i].replicas = 2]
    /\ cur.edges = prev.edges

\* C1: SPOF monotonicity.  For every graph, a single node included, a node
\* that analyzeTopology lists in spofNodeIds is no longer listed when the
\* analysis is re-run with only that node's replica count raised from 1 to 2.
C1_SpofMonotonicity ==
    \A i \in 1..MaxNodes :
        ReplicaRaisedOnSpof(i) => ~Includes(cur.result.spofNodeIds, cur.nodes[i].id)

\* ------------------------------------------------------------------------
\* Properties of SpecMetrics
\* ------------------------------------------------------------------------
MetricsCalled == cur.fn = "computeMetrics"

\* The availability <<m, e>> (= 1 - m * 10^(-e)) lies in [0, 0.99999].
AvailabilityInRange(a) == ComplAtMostOne(a) /\ ~ComplBelow(a, 5)

\* C2 as stated: availability is in [0, 0.99999] for every graph, and it is
\* exactly 0.99999 whenever analyzeTopology reports zero SPOFs.
C2_AvailabilityAsStated ==
    MetricsCalled =>
        /\ AvailabilityInRange(cur.result.availability)
        /\ (cur.topology.spofNodeIds = <<>> =>
                cur.result.availability = AvailabilityCeiling)

\* C2 (amended): availability is in [0, 0.99999] for every graph; on a
\* non-empty graph with zero SPOFs it is exactly 0.99999, and on the empty
\* graph (which has zero SPOFs) it is 0.
C2_AvailabilityBound ==
    MetricsCalled =>
        /\ AvailabilityInRange(cur.result.availability)
        /\ (cur.topology.spofNodeIds = <<>> /\ cur.nodes /= <<>> =>
                cur.result.availability = AvailabilityCeiling)
        /\ (cur.nodes = <<>> =>
                cur.topology.spofNodeIds = <<>> /\ cur.result.availability = ProbZero)

\* A graph of several nodes without any SPOF has been measured and its
\* availability is the ceiling.
C2_Witness ==
    /\ MetricsCalled
    /\ Len(cur.nodes) >= 2
    /\ cur.edges /= <<>>
    /\ cur.topology.spofNodeIds = <<>>
    /\ cur.result.availability = AvailabilityCeiling

\* C3: determinism.  Two calls of computeMetrics (and of the analyzeTopology
\* it runs) with the same nodes, edges and trafficLoad return identical
\* results in every field, whatever happened between the calls.
C3_Determinism ==
    (/\ MetricsCalled
     /\ prev.fn = "computeMetrics"
     /\ prev.nodes = cur.nodes
     /\ prev.edges = cur.edges
     /\ prev.trafficLoad = cur.trafficLoad)
    => /\ prev.result = cur.result
       /\ prev.topology = cur.topology

\* The effective capacities of the non-client critical-path nodes that have
\* a catalog entry.
PathCapacities(ns, path) ==
    {Def(FindNode(ns, path[i]).componentType).maxThroughput * FindNode(ns, path[i]).replicas :
        i \in {j \in 1..Len(path) :
                  /\ HasDef(FindNode(ns, path[j]).componentType)
                  /\ Category(FindNode(ns, path[j]).componentType) /= "clients"}}

SetMin(S) == CHOOSE x \in S : \A y \in S : x <= y

\* C5: throughput cap.  For every non-empty graph throughput is
\* min(trafficLoad, C), C being the smallest effective capacity (catalog
\* maxThroughput x replicas) over the non-client critical-path nodes; C is the
\* capacity of the node reported as bottleneckNodeId; and throughput is
\* trafficLoad when no non-client critical-path node has a catalog entry.
C5_ThroughputCap ==
    (MetricsCalled /\ cur.nodes /= <<>>) =>
        LET caps == PathCapacities(cur.nodes, cur.topology.criticalPath)
            bn == cur.topology.bottleneckNodeId
        IN IF caps = {}
           THEN cur.result.throughput = cur.trafficLoad /\ bn = Null
           ELSE /\ cur.result.throughput = Min2(cur.trafficLoad, SetMin(caps))
                /\ bn /= Null
                /\ Includes(cur.topology.criticalPath, bn[1])
                /\ Def(FindNode(cur.nodes, bn[1]).componentType).maxThroughput
                       * FindNode(cur.nodes, bn[1]).replicas = SetMin(caps)

\* The traffic exceeds the capacity of a replicated bottleneck: throughput is
\* capped below trafficLoad.
C5_Witness ==
    /\ MetricsCalled
    /\ cur.result.throughput < cur.trafficLoad
    /\ cur.topology.bottleneckNodeId /= Null
    /\ Len(cur.topology.criticalPath) >= 3
    /\ \E i \in 1..Len(cur.nodes) : cur.nodes[i].replicas = 2

\* ------------------------------------------------------------------------
\* Load propagation (simulation engine: propagateLoad)
\* ------------------------------------------------------------------------
\* A load is an exact fraction <<numerator, denominator>> in lowest terms:
\* the engine divides by the fan-out and the quotients are compared exactly.
FracNorm(f) ==
    IF f[1] = 0 THEN <<0, 1>>
    ELSE LET g == Gcd(f[1], f[2]) IN <<f[1] \div g, f[2] \div g>>

FracAdd(a, b) == FracNorm(<<a[1] * b[2] + b[1] * a[2], a[2] * b[2]>>)

FracDiv(a, k) == FracNorm(<<a[1], a[2] * k>>)

FracOf(n) == <<n, 1>>

\* inDegree.get(id) || 0
inDegree(es, id) == Cardinality({i \in 1..Len(es) : es[i].target = id})

\* loadMap.get(id) || 0
loadOf(loadMap, id) == IF loadMap[id] = Null THEN FracOf(0) ELSE loadMap[id][1]

\* The inner loop: every neighbour, once per edge, gains perNeighbor.  The
\* updated map is bound to its value before the next neighbour is handled.
RECURSIVE distributeToNeighbors(_, _, _)
distributeToNeighbors(loadMap, neighbors, perNeighbor) ==
    IF neighbors = <<>> THEN loadMap
    ELSE LET next == Head(neighbors)
         IN CHOOSE result \in
                {distributeToNeighbors(updated, Tail(neighbors), perNeighbor) :
                    updated \in {[loadMap EXCEPT
                                     ![next] = Some(FracAdd(loadOf(loadMap, next), perNeighbor))]}} :
                TRUE

\* A variant that hands every neighbour the whole incoming load.
undividedShare(incomingLoad, fanOut) == incomingLoad

\* incomingLoad / neighbors.length
perNeighborShare(incomingLoad, fanOut) == FracDiv(incomingLoad, fanOut)

\* The while loop over the queue; a node already visited is skipped.
RECURSIVE propagateQueue(_, _, _, _)
propagateQueue(es, loadMap, queue, visited) ==
    IF queue = <<>> THEN loadMap
    ELSE LET nodeId == Head(queue)
         IN IF nodeId \in visited THEN propagateQueue(es, loadMap, Tail(queue), visited)
            ELSE LET incomingLoad == loadOf(loadMap, nodeId)
                     neighbors == buildAdjacencyList(es, nodeId)
                 IN IF Len(neighbors) > 0
                    THEN propagateQueue(es,
                             distributeToNeighbors(loadMap, neighbors,
                                 perNeighborShare(incomingLoad, Len(neighbors))),
                             Tail(queue) \o neighbors, visited \cup {nodeId})
                    ELSE propagateQueue(es, loadMap, Tail(queue), visited \cup {nodeId})

\* The per-node load map; the edges join nodes of ns (removeNode drops the
\* edges of the node it removes).  Nodes never reached get 0.
propagateLoad(ns, es, load) ==
    LET sources == SelectSeq(ns, LAMBDA n : inDegree(es, n.id) = 0)
        perSource == IF Len(sources) > 0 THEN FracDiv(FracOf(load), Len(sources))
                     ELSE FracOf(0)
        ids == Range(NodeIds(ns))
        initial == [id \in ids |->
                       IF id \in Range(NodeIds(sources)) THEN Some(perSource) ELSE Null]
        loadMap == propagateQueue(es, initial, NodeIds(sources), {})
    IN [id \in ids |-> loadOf(loadMap, id)]

\* ------------------------------------------------------------------------
\* SpecLoad: propagateLoad on every small graph, self-loops and cycles included
\* ------------------------------------------------------------------------
LoadLevels == {600, 1000}

InitLoad ==
    /\ \E n \in 0..MaxNodes : \E k \in 0..MaxLoadEdges :
          /\ nodes \in NodeLists({"web-server"}, n)
          /\ edges \in EdgeLists(n, k, TRUE)
    /\ trafficLoad \in LoadLevels
    /\ trafficPattern = "steady"
    /\ activeScenario = NoScenario
    /\ now = 0
    /\ cur = NoCall
    /\ prev = NoCall
    /\ alerts = <<>>
    /\ loop = NoLoop
    /\ hook = NoHook
    /\ nodeIdCounter = Len(nodes)
    /\ timers = <<>>
    /\ templateLoads = <<>>
    /\ injections = <<>>

\* The traffic slider of the simulation store.
SetTrafficLoad(load) ==
    /\ load /= trafficLoad
    /\ trafficLoad' = load
    /\ UNCHANGED <<nodes, edges, trafficPattern, activeScenario, now, cur, prev, alerts, loop,
                   hook, nodeIdCounter, timers, templateLoads, injections>>

CallPropagateLoad ==
    /\ cur' = [fn |-> "propagateLoad", nodes |-> nodes, edges |-> edges,
               trafficLoad |-> trafficLoad,
               result |-> propagateLoad(nodes, edges, trafficLoad)]
    /\ prev' = cur
    /\ UNCHANGED <<nodes, edges, trafficLoad, trafficPattern, activeScenario, now, alerts, loop,
                   hook, nodeIdCounter, timers, templateLoads, injections>>

NextLoad ==
    \/ \E load \in LoadLevels : SetTrafficLoad(load)
    \/ CallPropagateLoad

SpecLoad == InitLoad /\ [][NextLoad]_vars

\* ------------------------------------------------------------------------
\* Properties of SpecLoad
\* ------------------------------------------------------------------------
LoadCalled == cur.fn = "propagateLoad"

OutDegree(es, id) == Cardinality({i \in 1..Len(es) : es[i].source = id})

\* A tree: one node without incoming edge, one incoming edge for every other
\* node, and every node reached from the root.
IsTree(ns, es) ==
    /\ Len(ns) >= 1
    /\ Len(es) = Len(ns) - 1
    /\ \E root \in Range(NodeIds(ns)) :
          /\ inDegree(es, root) = 0
          /\ \A id \in Range(NodeIds(ns)) \ {root} : inDegree(es, id) = 1
          /\ Reachable(es, root) = Range(NodeIds(ns))

\* C4: uniform split on trees.  On a tree-shaped graph propagateLoad gives
\* the source the whole trafficLoad and every successor of a node with k
\* outgoing edges that node's load divided by k: on a chain every node gets
\* trafficLoad, and a source with load 1000 and two leaves gives each 500.
C4_UniformSplit ==
    (LoadCalled /\ IsTree(cur.nodes, cur.edges)) =>
        LET es == cur.edges
            ids == Range(NodeIds(cur.nodes))
        IN /\ \A id \in ids :
                 inDegree(es, id) = 0 => cur.result[id] = FracOf(cur.trafficLoad)
           /\ \A i \in 1..Len(es) :
                 cur.result[es[i].target] =
                     FracDiv(cur.result[es[i].source], OutDegree(es, es[i].source))
           /\ (\A id \in ids : OutDegree(es, id) <= 1) =>
                 \A id \in ids : cur.result[id] = FracOf(cur.trafficLoad)
           /\ (cur.trafficLoad = 1000 /\ Len(es) = 2 /\ es[1].source = es[2].source) =>
                 cur.result[es[1].target] = FracOf(500) /\ cur.result[es[2].target] = FracOf(500)

\* propagateLoad has run on a source with two leaves under load 1000, after
\* a run on the same graph under another load.
C4_Witness ==
    /\ LoadCalled
    /\ IsTree(cur.nodes, cur.edges)
    /\ cur.trafficLoad = 1000
    /\ Len(cur.edges) = 2
    /\ cur.edges[1].source = cur.edges[2].source
    /\ cur.result[cur.edges[1].target] = FracOf(500)
    /\ prev.fn = "propagateLoad"
    /\ prev.trafficLoad /= cur.trafficLoad

\* ------------------------------------------------------------------------
\* Validation context (engine/ValidationContext)
\* ------------------------------------------------------------------------
\* A scenario is Null or Some([id, targets]); a target that is not set is
\* Null.  minAvailability is a complement <<m, e>> like every availability.
Scenario(id, minAvailability, maxLatencyP95) ==
    [id |-> id,
     targets |-> [minAvailability |-> minAvailability, maxLatencyP95 |-> maxLatencyP95]]

Thresholds(p99, avail, replicas, lb, cache, obs, guard) ==
    [maxAcceptableP99Ms |-> p99, minAcceptableAvailability |-> avail,
     replicasRequiredForHA |-> replicas, requiresLoadBalancer |-> lb,
     requiresCache |-> cache, requiresObservability |-> obs,
     requiresGuardrails |-> guard]

TIER_THRESHOLDS(tier) ==
    CASE tier = "prototype" -> Thresholds(2000, <<5, 2>>, 1, FALSE, FALSE, FALSE, FALSE)
      [] tier = "startup" -> Thresholds(1000, <<1, 2>>, 1, FALSE, FALSE, FALSE, FALSE)
      [] tier = "growth" -> Thresholds(500, <<1, 3>>, 2, TRUE, TRUE, FALSE, FALSE)
      [] tier = "scale" -> Thresholds(200, <<1, 4>>, 2, TRUE, TRUE, TRUE, TRUE)
      [] tier = "enterprise" -> Thresholds(100, <<1, 5>>, 3, TRUE, TRUE, TRUE, TRUE)

trafficToTier(rps) ==
    IF rps <= 500 THEN "prototype"
    ELSE IF rps <= 5000 THEN "startup"
    ELSE IF rps <= 50000 THEN "growth"
    ELSE IF rps <= 500000 THEN "scale"
    ELSE "enterprise"

\* types.filter((t) => kinds.includes(t)).length
CountKinds(ns, kinds) == Cardinality({i \in 1..Len(ns) : ns[i].componentType \in kinds})

ServerTypes == {"api-server", "web-server", "microservice", "serverless-function", "container-pod"}
DbTypes == {"postgresql", "mysql", "mongodb", "cassandra", "dynamodb"}

architectureComplexityTier(ns, es) ==
    LET nodeCount == Len(ns)
        edgeCount == Len(es)
        hasMultipleServices == CountKinds(ns, ServerTypes) >= 3
        hasServiceMesh == CountKinds(ns, ServerTypes) >= 5
        hasMultipleDBTypes ==
            Cardinality({ns[i].componentType : i \in 1..Len(ns)} \cap DbTypes) >= 2
        hasMessageQueue == HasKind(ns, {"kafka", "message-queue", "pub-sub", "event-stream"})
        hasCDN == HasKind(ns, {"cdn"})
        hasMultipleRegions ==
            Cardinality({ns[i].region : i \in 1..Len(ns)} \ {""}) >= 2
        hasMLOps == HasKind(ns, {"training-cluster", "model-registry", "feature-store",
                                 "drift-detector"})
        hasObservabilityStack ==
            CountKinds(ns, {"metrics-collector", "log-aggregator", "distributed-tracer"}) >= 2
        hasAdvancedAI ==
            CountKinds(ns, {"agent-orchestrator", "rag-pipeline", "model-router",
                            "llm-observability"}) >= 2
        score == (IF nodeCount >= 4 THEN 1 ELSE 0)
                 + (IF nodeCount >= 8 THEN 1 ELSE 0)
                 + (IF nodeCount >= 14 THEN 2 ELSE 0)
                 + (IF nodeCount >= 20 THEN 2 ELSE 0)
                 + (IF edgeCount >= 8 THEN 1 ELSE 0)
                 + (IF hasMultipleServices THEN 2 ELSE 0)
                 + (IF hasServiceMesh THEN 2 ELSE 0)
                 + (IF hasMultipleDBTypes THEN 1 ELSE 0)
                 + (IF hasMessageQueue THEN 2 ELSE 0)
                 + (IF hasCDN THEN 2 ELSE 0)
                 + (IF hasMultipleRegions THEN 3 ELSE 0)
                 + (IF hasMLOps THEN 3 ELSE 0)
                 + (IF hasObservabilityStack THEN 2 ELSE 0)
                 + (IF hasAdvancedAI THEN 2 ELSE 0)
    IN IF score >= 12 THEN "enterprise"
       ELSE IF score >= 8 THEN "scale"
       ELSE IF score >= 5 THEN "growth"
       ELSE IF score >= 2 THEN "startup"
       ELSE "prototype"

\* A variant whose fallback for an id outside the table is prototype.
scenarioFallbackPrototype(scenarioId) ==
    CASE scenarioId = "basic-web-app" -> "startup"
      [] scenarioId = "url-shortener" -> "growth"
      [] OTHER -> "prototype"

\* map[scenarioId] ?? "startup"
scenarioToTier(scenarioId) ==
    CASE scenarioId = "basic-web-app" -> "startup"
      [] scenarioId \in {"design-twitter", "netflix-streaming", "build-chatgpt",
                         "fraud-detection", "scale-llm-100m"} -> "enterprise"
      [] scenarioId \in {"ride-sharing", "flash-sale", "distributed-database",
                         "rag-enterprise", "multi-agent"} -> "scale"
      [] scenarioId = "url-shortener" -> "growth"
      [] OTHER -> "startup"

componentMixTier(ns) ==
    IF HasKind(ns, {"training-cluster", "drift-detector", "ab-test-controller",
                    "feature-store", "data-warehouse"}) THEN "enterprise"
    ELSE IF HasKind(ns, {"kafka", "cdn", "distributed-tracer", "llm-observability",
                         "model-registry", "agent-orchestrator"}) THEN "scale"
    ELSE IF HasKind(ns, {"message-queue", "api-gateway", "reverse-proxy",
                         "metrics-collector", "rag-pipeline", "event-stream", "pub-sub"})
         THEN "growth"
    ELSE "prototype"

TIER_ORDER == <<"prototype", "startup", "growth", "scale", "enterprise">>

\* TIER_ORDER.indexOf(t)
TierIndex(t) == CHOOSE i \in 1..Len(TIER_ORDER) : TIER_ORDER[i] = t

\* A variant that keeps the last tier given instead of the highest.
RECURSIVE lastTier(_, _)
lastTier(tiers, best) ==
    IF tiers = <<>> THEN best
    ELSE lastTier(Tail(tiers), IF Head(tiers) /= Null THEN Head(tiers)[1] ELSE best)

\* The loop of maxTier over its arguments, each Null or Some(tier).
RECURSIVE maxTierScan(_, _)
maxTierScan(tiers, best) ==
    IF tiers = <<>> THEN best
    ELSE LET t == Head(tiers)
         IN maxTierScan(Tail(tiers),
                IF t /= Null /\ TierIndex(t[1]) > TierIndex(best) THEN t[1] ELSE best)

maxTier(tiers) == maxTierScan(tiers, "prototype")

resolveValidationContext(ns, es, metrics, load, pattern, scenario) ==
    LET trafficTier == trafficToTier(load)
        complexityTier == architectureComplexityTier(ns, es)
        componentTier == componentMixTier(ns)
        scenTier == IF scenario /= Null THEN Some(scenarioToTier(scenario[1].id)) ELSE Null
        scaleTier == maxTier(<<Some(trafficTier), Some(complexityTier),
                               Some(componentTier), scenTier>>)
        defaults == TIER_THRESHOLDS(scaleTier)
        p95Target == IF scenario /= Null THEN scenario[1].targets.maxLatencyP95 ELSE Null
        availTarget == IF scenario /= Null THEN scenario[1].targets.minAvailability ELSE Null
    IN [currentRPS |-> load,
        trafficPattern |-> pattern,
        scaleTier |-> scaleTier,
        scaleTierSignals |-> [trafficTier |-> trafficTier,
                              complexityTier |-> complexityTier,
                              componentTier |-> componentTier,
                              scenarioTier |-> scenTier,
                              resolvedTier |-> scaleTier],
        mode |-> IF scenario /= Null THEN "scenario" ELSE "freeform",
        componentCount |-> Len(ns),
        hasAIComponents |-> \E i \in 1..Len(ns) : ns[i].isAI,
        isMonolith |-> CountKinds(ns, ServerTypes) <= 1 /\ CountKinds(ns, DbTypes) <= 1,
        thresholds |->
            [defaults EXCEPT
                !.maxAcceptableP99Ms =
                    IF p95Target /= Null THEN p95Target[1] ELSE defaults.maxAcceptableP99Ms,
                !.minAcceptableAvailability =
                    IF availTarget /= Null THEN availTarget[1]
                    ELSE defaults.minAcceptableAvailability]]

\* ------------------------------------------------------------------------
\* SpecTier: resolveValidationContext under changing traffic
\* ------------------------------------------------------------------------
TierKinds == {"web-server", "metrics-collector", "kafka", "feature-store"}

\* One load on each side of every traffic-tier boundary that matters.
TierLoads == {499, 501, 5001, 50001, 500001}

\* An unmapped scenario (no entry in the scenario-tier table), a mapped one
\* with targets, or none.
TierScenarios ==
    {NoScenario,
     Some(Scenario("url-shortener", Some(<<1, 3>>), Some(50))),
     Some(Scenario("custom-scenario", Null, Null))}

\* The lists ns with at most one node moved to another region.
WithOneRegionMoved(ns) ==
    {ns} \cup {[ns EXCEPT ![i].region = "eu-west-1"] : i \in 1..Len(ns)}

\* The chain 1 -> 2 -> ... -> n.
ChainEdges(n) == [i \in 1..(IF n = 0 THEN 0 ELSE n - 1) |-> [source |-> i, target |-> i + 1]]

InitTier ==
    /\ \E n \in 0..MaxNodes : \E ns \in NodeLists(TierKinds, n) :
          /\ nodes \in WithOneRegionMoved(ns)
          /\ edges = ChainEdges(n)
    /\ trafficLoad \in TierLoads
    /\ trafficPattern = "steady"
    /\ activeScenario \in TierScenarios
    /\ now = 0
    /\ cur = NoCall
    /\ prev = NoCall
    /\ alerts = <<>>
    /\ loop = NoLoop
    /\ hook = NoHook
    /\ nodeIdCounter = Len(nodes)
    /\ timers = <<>>
    /\ templateLoads = <<>>
    /\ injections = <<>>

CallResolveValidationContext ==
    /\ cur' = [fn |-> "resolveValidationContext", nodes |-> nodes, edges |-> edges,
               trafficLoad |-> trafficLoad, activeScenario |-> activeScenario,
               result |-> resolveValidationContext(nodes, edges,
                             computeMetrics(nodes, edges, trafficLoad, now),
                             trafficLoad, trafficPattern, activeScenario)]
    /\ prev' = cur
    /\ UNCHANGED <<nodes, edges, trafficLoad, trafficPattern, activeScenario, now, alerts, loop,
                   hook, nodeIdCounter, timers, templateLoads, injections>>

NextTier ==
    \/ \E load \in TierLoads : SetTrafficLoad(load)
    \/ CallResolveValidationContext

SpecTier == InitTier /\ [][NextTier]_vars

\* ------------------------------------------------------------------------
\* Properties of SpecTier
\* ------------------------------------------------------------------------
ContextResolved == cur.fn = "resolveValidationContext"

TierLeq(a, b) == TierIndex(a) <= TierIndex(b)

\* The highest of a set of tiers.
HighestTier(S) == CHOOSE t \in S : \A u \in S : TierLeq(u, t)

\* Two resolutions of the same graph and scenario.
SameTopologyAndScenario ==
    /\ ContextResolved
    /\ prev.fn = "resolveValidationContext"
    /\ prev.nodes = cur.nodes
    /\ prev.edges = cur.edges
    /\ prev.activeScenario = cur.activeScenario

\* C8: the resolved tier is the maximum, in the order prototype < startup <
\* growth < scale < enterprise, of the traffic, structural-complexity,
\* component-mix and scenario tiers; it never decreases when trafficLoad
\* increases with topology and scenario fixed; and trafficLoad 499 -> 501
\* moves the traffic tier from prototype to startup.
C8_ResolvedTierIsMax ==
    /\ ContextResolved =>
          LET sig == cur.result.scaleTierSignals
              given == {sig.trafficTier, sig.complexityTier, sig.componentTier}
                       \cup (IF sig.scenarioTier = Null THEN {} ELSE {sig.scenarioTier[1]})
          IN /\ cur.result.scaleTier = HighestTier(given)
             /\ sig.resolvedTier = cur.result.scaleTier
             /\ sig.trafficTier = trafficToTier(cur.trafficLoad)
             /\ sig.complexityTier = architectureComplexityTier(cur.nodes, cur.edges)
             /\ sig.componentTier = componentMixTier(cur.nodes)
             /\ (cur.trafficLoad = 499 => sig.trafficTier = "prototype")
             /\ (cur.trafficLoad = 501 => sig.trafficTier = "startup")
    /\ (SameTopologyAndScenario /\ prev.trafficLoad <= cur.trafficLoad) =>
          TierLeq(prev.result.scaleTier, cur.result.scaleTier)
    /\ (SameTopologyAndScenario /\ prev.trafficLoad >= cur.trafficLoad) =>
          TierLeq(cur.result.scaleTier, prev.result.scaleTier)

\* The load went from 499 to 501 on a graph whose other signals are at
\* prototype: the resolved tier moved from prototype to startup.
C8_Witness ==
    /\ SameTopologyAndScenario
    /\ prev.trafficLoad = 499
    /\ cur.trafficLoad = 501
    /\ prev.result.scaleTier = "prototype"
    /\ cur.result.scaleTier = "startup"
    /\ cur.nodes /= <<>>

\* C9 as stated: the scenario-tier signal is the table's tier for a mapped
\* scenario id, and startup both for an id that is not in the table and when
\* there is no active scenario.
C9_ScenarioTierAsStated ==
    ContextResolved =>
        LET sig == cur.result.scaleTierSignals
        IN IF cur.activeScenario = NoScenario THEN sig.scenarioTier = Some("startup")
           ELSE IF cur.activeScenario[1].id = "url-shortener"
                THEN sig.scenarioTier = Some("growth")
                ELSE sig.scenarioTier = Some("startup")

\* C9 (amended): the scenario-tier signal is the table's tier for a mapped
\* scenario id and startup for an id that is not in the table; without an
\* active scenario there is no scenario signal (null), and the resolved tier
\* is the maximum of the other three signals alone.
C9_ScenarioTier ==
    ContextResolved =>
        LET sig == cur.result.scaleTierSignals
        IN IF cur.activeScenario = NoScenario
           THEN /\ sig.scenarioTier = Null
                /\ cur.result.scaleTier =
                       HighestTier({sig.trafficTier, sig.complexityTier, sig.componentTier})
           ELSE IF cur.activeScenario[1].id = "url-shortener"
                THEN sig.scenarioTier = Some("growth")
                     /\ TierLeq("growth", cur.result.scaleTier)
                ELSE sig.scenarioTier = Some("startup")
                     /\ TierLeq("startup", cur.result.scaleTier)

\* Without a scenario a one-node graph under 499 req/s resolved to prototype,
\* which a startup scenario signal would not allow.
C9_Witness ==
    /\ ContextResolved
    /\ cur.activeScenario = NoScenario
    /\ cur.nodes /= <<>>
    /\ cur.result.scaleTier = "prototype"
    /\ cur.result.scaleTierSignals.scenarioTier = Null

\* ------------------------------------------------------------------------
\* Architecture validator (engine/ArchitectureValidator)
\* ------------------------------------------------------------------------
\* A check keeps the fields the scoring and the report structure read; the
\* display texts (name, notes, fix) are left out.
Check(id, outcome, severity, scoreImpact) ==
    [id |-> id, outcome |-> outcome, severity |-> severity, scoreImpact |-> scoreImpact]

hasType(ns, types) == \E i \in 1..Len(ns) : ns[i].componentType \in types

nodesOfType(ns, types) == SelectSeq(ns, LAMBDA n : n.componentType \in types)

\* Sum of scoreImpact over the checks with the given outcome.
ImpactOf(checks, outcome) ==
    SumSeq([i \in 1..Len(checks) |->
               IF checks[i].outcome = outcome THEN checks[i].scoreImpact ELSE 0])

\* A variant that counts an advisory like a pass.
dimScoreFullAdvisory(checks) ==
    LET total == SumSeq([i \in 1..Len(checks) |-> checks[i].scoreImpact])
    IN IF Len(checks) = 0 \/ total = 0 THEN 100
       ELSE RoundDiv(100 * (ImpactOf(checks, "pass") + ImpactOf(checks, "advisory")), total)

\* Math.round(((earned + advisory) / total) * 100), an advisory counting 0.7
dimScore(checks) ==
    LET total == SumSeq([i \in 1..Len(checks) |-> checks[i].scoreImpact])
        earned == ImpactOf(checks, "pass")
        advisory == ImpactOf(checks, "advisory")
    IN IF Len(checks) = 0 \/ total = 0 THEN 100
       ELSE RoundDiv(100 * earned + 70 * advisory, total)

Dimension(id, checks) == [id |-> id, score |-> dimScore(checks), checks |-> checks]

LowTier(ctx) == ctx.scaleTier \in {"prototype", "startup"}

\* n.data.config?.replicas ?? 1, summed over ns
TotalReplicas(ns) == SumSeq([i \in 1..Len(ns) |-> ns[i].replicas])

spofCheck(spofNodeIds, ctx) ==
    IF Len(spofNodeIds) = 0 THEN <<Check("rel-no-spof", "pass", "critical", 40)>>
    ELSE IF LowTier(ctx) THEN <<Check("rel-spof-advisory", "advisory", "warning", 10)>>
    ELSE <<Check("rel-spof-fail", "fail", "critical", 40)>>

\* A variant that fails a single database at every tier.
dbReplicaAlwaysFail(ns, ctx) ==
    LET dbNodes == nodesOfType(ns, DbTypes)
        hasDBReplica == Len(dbNodes) >= 2
                        \/ \E i \in 1..Len(dbNodes) : dbNodes[i].replicas >= 2
    IN IF Len(dbNodes) = 0 THEN <<>>
       ELSE IF hasDBReplica THEN <<Check("rel-db-replica", "pass", "warning", 20)>>
       ELSE <<Check("rel-db-replica-fail", "fail", "critical", 25)>>

dbReplicaCheck(ns, ctx) ==
    LET dbNodes == nodesOfType(ns, DbTypes)
        hasDBReplica == Len(dbNodes) >= 2
                        \/ \E i \in 1..Len(dbNodes) : dbNodes[i].replicas >= 2
    IN IF Len(dbNodes) = 0 THEN <<>>
       ELSE IF hasDBReplica THEN <<Check("rel-db-replica", "pass", "warning", 20)>>
       ELSE IF ctx.thresholds.replicasRequiredForHA <= 1
            THEN <<Check("rel-db-replica-adv", "advisory", "info", 5)>>
       ELSE <<Check("rel-db-replica-fail", "fail", "critical", 25)>>

loadBalancerCheck(ns, ctx) ==
    LET hasLB == hasType(ns, {"load-balancer", "api-gateway", "reverse-proxy"})
        servers == nodesOfType(ns, ServerTypes)
        serverCount == Len(servers)
        totalServerReplicas == TotalReplicas(servers)
    IN IF hasLB THEN <<Check("rel-lb", "pass", "warning", 20)>>
       ELSE IF serverCount > 1 \/ totalServerReplicas > 1
            THEN <<Check("rel-lb-fail", "fail", "critical", 30)>>
       ELSE IF ~ctx.thresholds.requiresLoadBalancer
            THEN <<Check("rel-lb-adv", "advisory", "info", 0)>>
       ELSE <<Check("rel-lb-rec", "advisory", "warning", 15)>>

connectedCheck(ns, es) ==
    LET disconnected ==
            SelectSeq(ns, LAMBDA n :
                ~\E i \in 1..Len(es) : es[i].source = n.id \/ es[i].target = n.id)
    IN <<Check("rel-connected", IF Len(disconnected) = 0 THEN "pass" ELSE "fail",
               "warning", 15)>>

checkReliability(ns, es, spofNodeIds, ctx) ==
    Dimension("reliability",
        spofCheck(spofNodeIds, ctx) \o dbReplicaCheck(ns, ctx)
            \o loadBalancerCheck(ns, ctx) \o connectedCheck(ns, es))

latencyCheck(metrics, ctx) ==
    LET p99 == metrics.latencyP99
        threshold == ctx.thresholds.maxAcceptableP99Ms
    IN IF 2 * p99 <= threshold THEN <<Check("perf-latency", "pass", "info", 30)>>
       ELSE IF p99 <= threshold THEN <<Check("perf-latency", "pass", "info", 20)>>
       ELSE <<Check("perf-latency", "fail",
                    IF p99 > threshold * 2 THEN "critical" ELSE "warning", 30)>>

\* errorRate is in 1/10000: 0.001 is 10, 0.01 is 100, 0.05 is 500.
errorRateCheck(metrics) ==
    LET errorRate == metrics.errorRate
    IN IF errorRate < 10 THEN <<Check("perf-errors", "pass", "info", 25)>>
       ELSE IF errorRate < 100 THEN <<Check("perf-errors", "pass", "info", 15)>>
       ELSE <<Check("perf-errors", "fail",
                    IF errorRate > 500 THEN "critical" ELSE "warning", 25)>>

cacheCheck(ns, ctx) ==
    LET hasCache == hasType(ns, {"redis-cache", "memcached", "prompt-cache"})
        hasDB == hasType(ns, DbTypes)
    IN IF hasCache THEN <<Check("perf-cache", "pass", "info", 15)>>
       ELSE IF ~ctx.thresholds.requiresCache \/ ~hasDB
            THEN <<Check("perf-cache", "advisory", "info", 0)>>
       ELSE <<Check("perf-cache", "fail", "warning", 15)>>

cdnCheck(ns, ctx) ==
    IF hasType(ns, {"cdn"}) THEN <<Check("perf-cdn", "pass", "info", 10)>>
    ELSE IF LowTier(ctx) THEN <<Check("perf-cdn", "advisory", "info", 0)>>
    ELSE <<Check("perf-cdn", "advisory", "warning", 10)>>

checkPerformance(ns, metrics, ctx) ==
    Dimension("performance",
        latencyCheck(metrics, ctx) \o errorRateCheck(metrics)
            \o cacheCheck(ns, ctx) \o cdnCheck(ns, ctx))

\* edges.some((e) => clientIds.has(e.source) && dbIds.has(e.target))
directDB(ns, es) ==
    LET clientIds == Range(NodeIds(nodesOfType(ns, {"web-client", "mobile-client", "api-consumer"})))
        dbIds == Range(NodeIds(nodesOfType(ns, DbTypes)))
    IN \E i \in 1..Len(es) : es[i].source \in clientIds /\ es[i].target \in dbIds

checkDataIntegrity(ns, es, ctx) ==
    LET dbNodes == nodesOfType(ns, DbTypes)
        hasObjStore == hasType(ns, {"object-storage"})
    IN Dimension("dataIntegrity",
        <<Check("data-store", IF Len(dbNodes) > 0 THEN "pass" ELSE "fail", "critical", 30),
          Check("data-no-direct", IF directDB(ns, es) THEN "fail" ELSE "pass", "critical", 25),
          IF hasObjStore \/ Len(dbNodes) >= 2 THEN Check("data-backup", "pass", "warning", 20)
          ELSE IF LowTier(ctx) THEN Check("data-backup", "advisory", "info", 5)
          ELSE Check("data-backup", "fail", "warning", 20)>>)

checkSecurity(ns, es, ctx) ==
    LET hasTLS == hasType(ns, {"cdn", "api-gateway", "reverse-proxy", "load-balancer"})
    IN Dimension("security",
        <<IF hasType(ns, {"api-gateway"}) THEN Check("sec-gw", "pass", "warning", 30)
          ELSE IF ctx.scaleTier = "prototype" THEN Check("sec-gw", "advisory", "info", 0)
          ELSE Check("sec-gw", "advisory", "warning", 15),
          IF hasType(ns, {"firewall-waf"}) THEN Check("sec-waf", "pass", "warning", 25)
          ELSE IF LowTier(ctx) THEN Check("sec-waf", "advisory", "info", 0)
          ELSE Check("sec-waf", "advisory", "warning", 15),
          IF ~directDB(ns, es) THEN Check("sec-no-direct-db", "pass", "critical", 25)
          ELSE Check("sec-no-direct-db", "fail", "critical", 25),
          Check("sec-tls", IF hasTLS THEN "pass" ELSE "advisory", "info",
                IF hasTLS THEN 10 ELSE 5)>>)

checkObservability(ns, ctx) ==
    Dimension("observability",
        <<IF hasType(ns, {"metrics-collector"}) THEN Check("obs-metrics", "pass", "warning", 40)
          ELSE IF ~ctx.thresholds.requiresObservability
               THEN Check("obs-metrics", "advisory", "info", 0)
          ELSE Check("obs-metrics", "fail", "warning", 40),
          IF hasType(ns, {"distributed-tracer"}) THEN Check("obs-tracing", "pass", "info", 30)
          ELSE Check("obs-tracing", "advisory", "info", 0),
          IF hasType(ns, {"log-aggregator"}) THEN Check("obs-logs", "pass", "info", 30)
          ELSE Check("obs-logs", "advisory", "info", 0)>>)

checkAIBestPractices(ns, ctx) ==
    LET llmNodes == nodesOfType(ns, {"llm-inference"})
        grounded == hasType(ns, {"rag-pipeline"}) \/ hasType(ns, {"vector-database"})
        hasAIGW == hasType(ns, {"ai-gateway"})
        hasPromptCache == hasType(ns, {"prompt-cache"})
        hasLLMObs == hasType(ns, {"llm-observability"})
        hasDrift == hasType(ns, {"drift-detector"})
        llmReplicas == TotalReplicas(llmNodes)
    IN IF Len(llmNodes) = 0
       THEN [id |-> "ai", score |-> 100, checks |-> <<Check("ai-none", "pass", "info", 100)>>]
       ELSE Dimension("ai",
              <<IF hasType(ns, {"guardrails"}) THEN Check("ai-guardrails", "pass", "critical", 20)
                ELSE IF ctx.scaleTier = "prototype"
                     THEN Check("ai-guardrails", "advisory", "warning", 5)
                ELSE Check("ai-guardrails", "fail", "critical", 20),
                IF grounded THEN Check("ai-rag", "pass", "info", 15)
                ELSE Check("ai-rag", "advisory", "warning", 5),
                IF hasAIGW THEN Check("ai-gw", "pass", "info", 15)
                ELSE Check("ai-gw", "advisory", "warning", 5),
                IF hasPromptCache THEN Check("ai-cache", "pass", "info", 10)
                ELSE Check("ai-cache", "advisory", "info", 0),
                IF hasLLMObs THEN Check("ai-obs", "pass", "info", 10)
                ELSE Check("ai-obs", "advisory", "info", 0),
                IF llmReplicas >= 2 \/ hasType(ns, {"model-router"})
                THEN Check("ai-spof", "pass", "critical", 15)
                ELSE IF LowTier(ctx) THEN Check("ai-spof", "advisory", "warning", 5)
                ELSE Check("ai-spof", "fail", "critical", 15)>>
              \o (IF hasType(ns, {"training-cluster"})
                  THEN <<IF hasDrift THEN Check("ai-drift", "pass", "info", 10)
                         ELSE Check("ai-drift", "advisory", "warning", 5)>>
                  ELSE <<>>))

\* A variant that decides on the score alone.
verdictByScore(overallScore, failedCriticalCount, advisoryCount, ctx) ==
    IF overallScore >= 85
    THEN [badge |-> IF ctx.scaleTier = "enterprise" THEN "Production Ready"
                    ELSE "Sound Architecture",
          isPositive |-> TRUE]
    ELSE IF overallScore >= 65
    THEN [badge |-> "Functional - Gaps to Address", isPositive |-> TRUE]
    ELSE IF ctx.scaleTier = "prototype" /\ overallScore >= 50
    THEN [badge |-> "Appropriate for Scale", isPositive |-> TRUE]
    ELSE [badge |-> "Critical Issues", isPositive |-> FALSE]

\* The badge class of computeVerdict; the texts are left out.
computeVerdict(overallScore, failedCriticalCount, advisoryCount, ctx) ==
    IF failedCriticalCount = 0 /\ overallScore >= 85
    THEN [badge |-> IF ctx.scaleTier = "enterprise" THEN "Production Ready"
                    ELSE "Sound Architecture",
          isPositive |-> TRUE]
    ELSE IF failedCriticalCount = 0 /\ overallScore >= 65
    THEN [badge |-> "Functional - Gaps to Address", isPositive |-> TRUE]
    ELSE IF failedCriticalCount = 0 /\ ctx.scaleTier = "prototype" /\ overallScore >= 50
    THEN [badge |-> "Appropriate for Scale", isPositive |-> TRUE]
    ELSE [badge |-> "Critical Issues", isPositive |-> FALSE]

\* weights[d.id] ?? 0
DimensionWeight(id) ==
    CASE id = "reliability" -> 25
      [] id = "performance" -> 20
      [] id = "dataIntegrity" -> 15
      [] id = "security" -> 15
      [] id = "observability" -> 10
      [] id = "ai" -> 15
      [] OTHER -> 0

RECURSIVE FlatChecks(_)
FlatChecks(dimensions) ==
    IF dimensions = <<>> THEN <<>>
    ELSE Head(dimensions).checks \o FlatChecks(Tail(dimensions))

\* A variant whose A boundary is exclusive.
gradeAboveNinety(overallScore) ==
    IF overallScore > 90 THEN "A"
    ELSE IF overallScore >= 80 THEN "B"
    ELSE IF overallScore >= 70 THEN "C"
    ELSE IF overallScore >= 60 THEN "D"
    ELSE "F"

gradeOf(overallScore) ==
    IF overallScore >= 90 THEN "A"
    ELSE IF overallScore >= 80 THEN "B"
    ELSE IF overallScore >= 70 THEN "C"
    ELSE IF overallScore >= 60 THEN "D"
    ELSE "F"

\* ArchitectureValidator.validate; clock is what Date.now() returns.
validate(ns, es, spofNodeIds, metrics, load, pattern, scenario, clock) ==
    LET ctx == resolveValidationContext(ns, es, metrics, load, pattern, scenario)
        hasAI == \E i \in 1..Len(ns) : ns[i].isAI \/ isAIComponentType(ns[i].componentType)
        dimensions ==
            <<checkReliability(ns, es, spofNodeIds, ctx),
              checkPerformance(ns, metrics, ctx),
              checkDataIntegrity(ns, es, ctx),
              checkSecurity(ns, es, ctx),
              checkObservability(ns, ctx)>>
            \o (IF hasAI THEN <<checkAIBestPractices(ns, ctx)>> ELSE <<>>)
        totalWeight == IF hasAI THEN 100 ELSE 85
        overallScore ==
            RoundDiv(SumSeq([i \in 1..Len(dimensions) |->
                                dimensions[i].score * DimensionWeight(dimensions[i].id)]),
                     totalWeight)
        allChecks == FlatChecks(dimensions)
        failed == SelectSeq(allChecks, LAMBDA c : c.outcome = "fail")
        failedCritical == SelectSeq(failed, LAMBDA c : c.severity = "critical")
        advisories == SelectSeq(allChecks, LAMBDA c : c.outcome = "advisory")
        \* the sort is stable: by severity, then in check order
        sorted == failedCritical
                  \o SelectSeq(failed, LAMBDA c : c.severity = "warning")
                  \o SelectSeq(failed, LAMBDA c : c.severity = "info")
        strong == SelectSeq(allChecks, LAMBDA c : c.outcome = "pass" /\ c.severity /= "info")
    IN [overallScore |-> overallScore,
        grade |-> gradeOf(overallScore),
        verdict |-> computeVerdict(overallScore, Len(failedCritical), Len(advisories), ctx),
        context |-> ctx,
        dimensions |-> dimensions,
        topIssues |-> SubSeq(sorted, 1, Min2(3, Len(sorted))),
        strengths |-> [i \in 1..Min2(4, Len(strong)) |-> strong[i].id],
        generatedAt |-> clock]

\* ------------------------------------------------------------------------
\* SpecValidate: validation reports of small architectures under three loads
\* ------------------------------------------------------------------------
ValidateKinds ==
    {"web-client", "web-server", "postgresql", "redis-cache", "load-balancer",
     "llm-inference"}

\* Prototype, growth and scale traffic.
ValidateLoads == {100, 6000, 100000}

\* No edge, a first edge only, a chain, or a fan-out from the first node.
EdgeShapes(n) ==
    {<<>>, ChainEdges(n)}
        \cup (IF n >= 2 THEN {<<[source |-> 1, target |-> 2]>>} ELSE {})
        \cup (IF n >= 3 THEN {[i \in 1..(n - 1) |-> [source |-> 1, target |-> i + 1]]} ELSE {})

InitValidate ==
    /\ \E n \in 0..MaxNodes : \E ns \in NodeLists(ValidateKinds, n) :
          /\ nodes \in WithOneReplicated(ns)
          /\ edges \in EdgeShapes(n)
    /\ trafficLoad \in ValidateLoads
    /\ trafficPattern = "steady"
    /\ activeScenario = NoScenario
    /\ now = 0
    /\ cur = NoCall
    /\ prev = NoCall
    /\ alerts = <<>>
    /\ loop = NoLoop
    /\ hook = NoHook
    /\ nodeIdCounter = Len(nodes)
    /\ timers = <<>>
    /\ templateLoads = <<>>
    /\ injections = <<>>

\* The report as the validation panel builds it from the analysis and the
\* snapshot of the current graph.
CallValidate ==
    /\ cur' = [fn |-> "validate", nodes |-> nodes, edges |-> edges,
               trafficLoad |-> trafficLoad, activeScenario |-> activeScenario,
               result |-> validate(nodes, edges,
                                   analyzeTopology(nodes, edges).spofNodeIds,
                                   computeMetrics(nodes, edges, trafficLoad, now),
                                   trafficLoad, trafficPattern, activeScenario, now)]
    /\ prev' = cur
    /\ UNCHANGED <<nodes, edges, trafficLoad, trafficPattern, activeScenario, now, alerts, loop,
                   hook, nodeIdCounter, timers, templateLoads, injections>>

\* setTrafficLoad while the traffic is ramped up between two reports.
RaiseTrafficLoad(load) ==
    /\ load > trafficLoad
    /\ trafficLoad' = load
    /\ UNCHANGED <<nodes, edges, trafficPattern, activeScenario, now, cur, prev, alerts, loop,
                   hook, nodeIdCounter, timers, templateLoads, injections>>

NextValidate ==
    \/ \E load \in ValidateLoads : RaiseTrafficLoad(load)
    \/ CallValidate

SpecValidate == InitValidate /\ [][NextValidate]_vars

\* ------------------------------------------------------------------------
\* Properties of SpecValidate
\* ------------------------------------------------------------------------
Validated == cur.fn = "validate"

ReportChecks(report) == FlatChecks(report.dimensions)

\* The outcomes of the checks of a report whose id is in ids.
OutcomesOf(report, ids) ==
    {ReportChecks(report)[i].outcome :
        i \in {j \in 1..Len(ReportChecks(report)) : ReportChecks(report)[j].id \in ids}}

DbReplicaCheckIds == {"rel-db-replica", "rel-db-replica-adv", "rel-db-replica-fail"}

\* Exactly one database node, with one replica.
OneUnreplicatedDb(ns) ==
    /\ CountKinds(ns, DbTypes) = 1
    /\ \A i \in 1..Len(ns) : ns[i].componentType \in DbTypes => ns[i].replicas = 1

\* C6: validator context sensitivity.  For one graph with exactly one
\* database node of replica count 1 and no scenario, the database-replica
\* check of the reliability dimension is advisory when the resolved tier is
\* prototype (trafficLoad = 100) and fail when it is scale (trafficLoad =
\* 100,000).
C6_DbReplicaByTier ==
    /\ (Validated /\ OneUnreplicatedDb(cur.nodes) /\ cur.activeScenario = NoScenario) =>
          LET tier == cur.result.context.scaleTier
              outcomes == OutcomesOf(cur.result, DbReplicaCheckIds)
              reliability == cur.result.dimensions[1]
          IN /\ reliability.id = "reliability"
             /\ \E i \in 1..Len(reliability.checks) :
                    reliability.checks[i].id \in DbReplicaCheckIds
             /\ (tier = "prototype" => outcomes = {"advisory"})
             /\ (tier = "scale" => outcomes = {"fail"})
    /\ (/\ Validated
        /\ prev.fn = "validate"
        /\ prev.nodes = cur.nodes
        /\ prev.edges = cur.edges
        /\ OneUnreplicatedDb(cur.nodes)
        /\ prev.activeScenario = NoScenario
        /\ cur.activeScenario = NoScenario
        /\ prev.trafficLoad = 100
        /\ cur.trafficLoad = 100000
        /\ prev.result.context.scaleTier = "prototype")
       => /\ cur.result.context.scaleTier = "scale"
          /\ OutcomesOf(prev.result, DbReplicaCheckIds) = {"advisory"}
          /\ OutcomesOf(cur.result, DbReplicaCheckIds) = {"fail"}

\* The same client - server - database chain was validated at 100 req/s
\* (prototype, advisory) and then at 100,000 req/s (scale, fail).
C6_Witness ==
    /\ Validated
    /\ prev.fn = "validate"
    /\ prev.nodes = cur.nodes
    /\ prev.edges = cur.edges
    /\ OneUnreplicatedDb(cur.nodes)
    /\ Len(cur.nodes) = 3
    /\ cur.edges = ChainEdges(3)
    /\ prev.trafficLoad = 100
    /\ cur.trafficLoad = 100000
    /\ prev.result.context.scaleTier = "prototype"
    /\ cur.result.context.scaleTier = "scale"
    /\ OutcomesOf(prev.result, DbReplicaCheckIds) = {"advisory"}
    /\ OutcomesOf(cur.result, DbReplicaCheckIds) = {"fail"}

\* The checks about a missing load balancer, cache, observability or
\* redundancy (SPOFs, database replica).
EnterprisePatternCheckIds ==
    {"rel-no-spof", "rel-spof-advisory", "rel-spof-fail"}
        \cup DbReplicaCheckIds
        \cup {"rel-lb", "rel-lb-fail", "rel-lb-adv", "rel-lb-rec"}
        \cup {"perf-cache"}
        \cup {"obs-metrics", "obs-tracing", "obs-logs"}

\* C7: enterprise patterns are enforced only at the scale and enterprise
\* tiers.  For every graph whose resolved tier is prototype, startup or
\* growth, no check about a missing load balancer, cache, observability or
\* redundancy (SPOFs, database replica) has outcome fail.
C7_EnterprisePatternsOnlyAtScale ==
    (Validated /\ cur.result.context.scaleTier \in {"prototype", "startup", "growth"}) =>
        "fail" \notin OutcomesOf(cur.result, EnterprisePatternCheckIds)

\* C10: grade thresholds.  In every validation report the grade is A iff
\* overallScore >= 90, B iff 80 <= overallScore < 90, C iff 70 <= overallScore
\* < 80, D iff 60 <= overallScore < 70, and F otherwise.
C10_GradeThresholds ==
    Validated =>
        LET score == cur.result.overallScore
            grade == cur.result.grade
        IN /\ score \in 0..100
           /\ grade \in {"A", "B", "C", "D", "F"}
           /\ (grade = "A" <=> score >= 90)
           /\ (grade = "B" <=> (80 <= score /\ score < 90))
           /\ (grade = "C" <=> (70 <= score /\ score < 80))
           /\ (grade = "D" <=> (60 <= score /\ score < 70))
           /\ (grade = "F" <=> score < 60)

\* A report of score exactly 90 was graded A, and the next report of the same
\* graph under more traffic fell below 90 and was graded B.
C10_Witness ==
    /\ Validated
    /\ prev.fn = "validate"
    /\ prev.nodes = cur.nodes
    /\ prev.result.overallScore = 90
    /\ prev.result.grade = "A"
    /\ cur.result.overallScore < 90
    /\ cur.result.grade = "B"

\* C11: empty-graph validation.  validate called with zero nodes, zero edges,
\* no SPOF ids and the metric snapshot of the empty graph returns a report in
\* which every dimension scores 100 and overallScore is 100.
C11_EmptyGraphValidation ==
    (Validated /\ cur.nodes = <<>> /\ cur.edges = <<>>) =>
        /\ \A i \in 1..Len(cur.result.dimensions) : cur.result.dimensions[i].score = 100
        /\ cur.result.overallScore = 100

\* ------------------------------------------------------------------------
\* Simulation tick (simulation engine: simulationTick; hooks/useSimulation)
\* ------------------------------------------------------------------------
\* a > b, a >= b and the smaller of two fractions
FracGt(a, b) == a[1] * b[2] > b[1] * a[2]

FracMin(a, b) == IF FracGt(a, b) THEN b ELSE a

\* A node as the canvas store holds it once the simulation fields matter:
\* config.label is the catalog name of the kind, the node is healthy.
SimNode(id, kind) ==
    [id |-> id, componentType |-> kind, replicas |-> 1, isFailed |-> FALSE,
     region |-> "us-east-1", isAI |-> isAIComponentType(kind),
     label |-> kind, status |-> "healthy", errorRate |-> FracOf(0)]

SimNodeLists(kinds, n) ==
    {[i \in 1..n |-> SimNode(i, f[i])] : f \in [1..n -> kinds]}

\* The message texts.  Two messages are the same text iff they are the same
\* template filled with the same label and the same rounded percentage.
SpofMessage(label) == [template |-> "is a single point of failure", label |-> label, percent |-> 0]

CapacityMessage(label, percent) ==
    [template |-> "at % capacity - consider scaling", label |-> label, percent |-> percent]

\* makeAlert; the id drawn from alertIdCounter and the timestamp are left out.
makeAlert(type, message, nodeId) == [type |-> type, message |-> message, nodeId |-> nodeId]

\* capacity > 0 ? incomingRPS / capacity : 0
tickLoadPercent(incomingRPS, capacity) ==
    IF capacity > 0 THEN FracDiv(incomingRPS, capacity) ELSE FracOf(0)

\* status of a node that has a catalog entry
tickStatus(node, loadPercent) ==
    IF node.isFailed THEN "failed"
    ELSE IF FracGt(loadPercent, FracOf(1)) THEN "critical"
    ELSE IF FracGt(loadPercent, <<4, 5>>) THEN "warning"
    ELSE "healthy"

\* errorRate of a node that has a catalog entry, exact, in 1/10000
tickErrorRate(node, failureRate, loadPercent) ==
    LET n == loadPercent[1]
        d == loadPercent[2]
    IN IF node.isFailed THEN FracOf(10000)
       ELSE IF FracGt(loadPercent, FracOf(1))
            THEN FracMin(FracOf(10000), FracNorm(<<failureRate * d + 5000 * (n - d), d>>))
       ELSE IF FracGt(loadPercent, <<4, 5>>)
            THEN FracNorm(<<failureRate * (5 * n - 4 * d), d>>)
       ELSE FracOf(0)

\* Math.round(loadPercent * 100)
loadPercentRounded(loadPercent) == RoundDiv(100 * loadPercent[1], loadPercent[2])

\* The alerts one node adds to newAlerts.
nodeAlerts(node, isSPOF, loadPercent, existingMessages) ==
    (IF isSPOF /\ SpofMessage(node.label) \notin existingMessages
     THEN <<makeAlert("warning", SpofMessage(node.label), node.id)>>
     ELSE <<>>)
    \o (IF /\ FracGt(loadPercent, <<9, 10>>)
           /\ CapacityMessage(node.label, loadPercentRounded(loadPercent)) \notin existingMessages
        THEN <<makeAlert("error",
                   CapacityMessage(node.label, loadPercentRounded(loadPercent)), node.id)>>
        ELSE <<>>)

\* The loop over the nodes: acc = [nodeUpdates, alerts].  nodeUpdates is the
\* Map as the sequence of its entries, in insertion order.
RECURSIVE tickNodes(_, _, _, _, _)
tickNodes(ns, topology, loadMap, existingMessages, acc) ==
    IF ns = <<>> THEN acc
    ELSE LET node == Head(ns)
         IN IF ~HasDef(node.componentType)
            THEN tickNodes(Tail(ns), topology, loadMap, existingMessages, acc)
            ELSE LET def == Def(node.componentType)
                     incomingRPS == loadMap[node.id]
                     capacity == def.maxThroughput * EffReplicas(node)
                     loadPercent == tickLoadPercent(incomingRPS, capacity)
                     isSPOF == Includes(topology.spofNodeIds, node.id)
                     update == [id |-> node.id,
                                currentLoad |-> loadPercent,
                                currentRPS |-> incomingRPS,
                                errorRate |-> tickErrorRate(node, def.failureRateAtCapacity, loadPercent),
                                status |-> tickStatus(node, loadPercent),
                                isBottleneck |-> topology.bottleneckNodeId = Some(node.id),
                                isSPOF |-> isSPOF]
                 IN tickNodes(Tail(ns), topology, loadMap, existingMessages,
                        [nodeUpdates |-> Append(acc.nodeUpdates, update),
                         alerts |-> acc.alerts
                                    \o nodeAlerts(node, isSPOF, loadPercent, existingMessages)])

simulationTick(ns, es, load, previousAlerts, clock) ==
    LET topology == analyzeTopology(ns, es)
        loadMap == propagateLoad(ns, es, load)
        existingMessages == {previousAlerts[i].message : i \in 1..Len(previousAlerts)}
        loop1 == tickNodes(ns, topology, loadMap, existingMessages,
                           [nodeUpdates |-> <<>>, alerts |-> <<>>])
    IN [metrics |-> computeMetrics(ns, es, load, clock),
        nodeUpdates |-> loop1.nodeUpdates,
        alerts |-> loop1.alerts,
        bottleneckNodeIds |-> topology.bottleneckNodeId,
        spofNodeIds |-> topology.spofNodeIds]

\* nodeUpdates.get(id): the entry of id, or Null
UpdateOf(nodeUpdates, id) ==
    LET hits == SelectSeq(nodeUpdates, LAMBDA u : u.id = id)
    IN IF hits = <<>> THEN Null ELSE Some(hits[Len(hits)])

\* .slice(-20)
LastTwenty(s) == IF Len(s) <= 20 THEN s ELSE SubSeq(s, Len(s) - 19, Len(s))

\* addAlerts of the simulation store
addAlerts(stateAlerts, newOnes) ==
    LET existing == {stateAlerts[i].message : i \in 1..Len(stateAlerts)}
        newAlerts == SelectSeq(newOnes, LAMBDA a : a.message \notin existing)
    IN LastTwenty(stateAlerts \o newAlerts)

\* The node list useSimulation writes back to the canvas store.
updatedNodes(ns, nodeUpdates) ==
    [i \in 1..Len(ns) |->
        LET update == UpdateOf(nodeUpdates, ns[i].id)
        IN IF update = Null THEN ns[i]
           ELSE [ns[i] EXCEPT !.errorRate = update[1].errorRate,
                              !.status = IF ns[i].isFailed THEN "failed" ELSE update[1].status]]

\* ------------------------------------------------------------------------
\* SpecTick: the simulation loop on small graphs, with failure injection
\* ------------------------------------------------------------------------
TickKinds == {"web-client", "web-server", UnknownKind}
TickLoads == {5000}
TickPatterns == {"steady", "sine-wave"}

\* Values the traffic-pattern modulation of one tick can take, in percent of
\* trafficLoad: steady is 0.95 + random * 0.1, sine-wave is 0.5 + 0.5 * sin.
Modulations(pattern) ==
    IF pattern = "sine-wave" THEN {80, 100} ELSE {95, 104}

\* A client, if there is one, is the node drawn first.
InitTick ==
    /\ \E n \in 1..MaxNodes :
          /\ nodes \in {ns \in SimNodeLists(TickKinds, n) :
                           \A i \in 2..n : ns[i].componentType /= "web-client"}
          /\ edges \in EdgeShapes(n)
    /\ trafficLoad \in TickLoads
    /\ trafficPattern \in TickPatterns
    /\ activeScenario = NoScenario
    /\ now = 0
    /\ cur = NoCall
    /\ prev = NoCall
    /\ alerts = <<>>
    /\ loop = NoLoop
    /\ hook = NoHook
    /\ nodeIdCounter = Len(nodes)
    /\ timers = <<>>
    /\ templateLoads = <<>>
    /\ injections = <<>>

\* setNodeFailed(id, failed): failure injection and its end; one node is
\* failed at a time.
SetNodeFailed(i, failed) ==
    /\ i \in 1..Len(nodes)
    /\ nodes[i].isFailed /= failed
    /\ failed => \A j \in 1..Len(nodes) : ~nodes[j].isFailed
    /\ nodes' = [nodes EXCEPT ![i].isFailed = failed,
                              ![i].status = IF failed THEN "failed" ELSE "healthy"]
    /\ UNCHANGED <<edges, trafficLoad, trafficPattern, activeScenario, now, cur, prev, alerts, loop,
                   hook, nodeIdCounter, timers, templateLoads, injections>>

\* One tick of useSimulation that is due: the modulated load, simulationTick,
\* the write-back to the canvas store and addAlerts.  The metrics and the
\* id lists the hook hands to the simulation store are kept in cur.result.
Tick(percent) ==
    /\ Len(nodes) > 0
    /\ LET effectiveLoad == (trafficLoad * percent) \div 100
       IN cur' = [fn |-> "simulationTick", nodes |-> nodes, edges |-> edges,
                  trafficLoad |-> effectiveLoad, previousAlerts |-> alerts,
                  result |-> simulationTick(nodes, edges, effectiveLoad, alerts, now)]
    /\ nodes' = updatedNodes(nodes, cur'.result.nodeUpdates)
    /\ alerts' = IF Len(cur'.result.alerts) > 0 THEN addAlerts(alerts, cur'.result.alerts)
                 ELSE alerts
    /\ UNCHANGED <<edges, trafficLoad, trafficPattern, activeScenario, now, prev, loop,
                   hook, nodeIdCounter, timers, templateLoads, injections>>

NextTick ==
    \/ \E i \in 1..MaxNodes : \E failed \in BOOLEAN : SetNodeFailed(i, failed)
    \/ \E percent \in Modulations(trafficPattern) : Tick(percent)

SpecTick == InitTick /\ [][NextTick]_vars

\* ------------------------------------------------------------------------
\* Properties of SpecTick
\* ------------------------------------------------------------------------
TickCalled == cur.fn = "simulationTick"

\* The status the load ratio of a node that is not failed calls for.
StatusForRatio(loadRatio) ==
    IF FracGt(loadRatio, FracOf(1)) THEN "critical"
    ELSE IF FracGt(loadRatio, <<4, 5>>) THEN "warning"
    ELSE "healthy"

\* C12: per-node health classification.  In every tick each node whose
\* isFailed flag is set gets status failed and error rate 1 whatever its load;
\* every other node gets status healthy when loadRatio <= 0.8, warning when
\* 0.8 < loadRatio <= 1 and critical when loadRatio > 1, loadRatio being its
\* propagated load over its effective capacity; and the status in the canvas
\* store is failed for as long as the flag is set.
C12_HealthClassification ==
    /\ TickCalled =>
          LET loadMap == propagateLoad(cur.nodes, cur.edges, cur.trafficLoad)
          IN \A i \in 1..Len(cur.nodes) :
                LET node == cur.nodes[i]
                    update == UpdateOf(cur.result.nodeUpdates, node.id)
                IN IF node.isFailed
                   THEN /\ update /= Null
                        /\ update[1].status = "failed"
                        /\ update[1].errorRate = FracOf(10000)
                   ELSE HasDef(node.componentType) =>
                        /\ update /= Null
                        /\ update[1].status =
                               StatusForRatio(FracDiv(loadMap[node.id],
                                   Def(node.componentType).maxThroughput * EffReplicas(node)))
    /\ \A i \in 1..Len(nodes) : nodes[i].isFailed => nodes[i].status = "failed"

\* C13: alert deduplication by message text.  After any sequence of ticks the
\* alert list of the store never holds two alerts with the same message, and
\* a tick never emits an alert whose message is already present.
C13_AlertsDeduplicated ==
    /\ \A i \in 1..Len(alerts) : \A j \in 1..Len(alerts) :
          i /= j => alerts[i].message /= alerts[j].message
    /\ TickCalled =>
          \A i \in 1..Len(cur.result.alerts) : \A j \in 1..Len(cur.previousAlerts) :
              cur.result.alerts[i].message /= cur.previousAlerts[j].message

\* The largest of the error rates the tick reports for the non-client nodes
\* of the path, rounded to 1/10000 as computeMetrics rounds.
RECURSIVE MaxTickErrorRate(_, _, _)
MaxTickErrorRate(ns, nodeUpdates, path) ==
    IF path = <<>> THEN FracOf(0)
    ELSE LET node == FindNode(ns, Head(path))
             update == UpdateOf(nodeUpdates, Head(path))
             rest == MaxTickErrorRate(ns, nodeUpdates, Tail(path))
         IN IF \/ update = Null
               \/ Category(node.componentType) = "clients"
               \/ FracGt(rest, update[1].errorRate)
            THEN rest
            ELSE update[1].errorRate

\* C15: the system error rate follows the per-node incoming load.  When no
\* critical-path node is failed, errorRate of computeMetrics is the largest
\* error rate the same tick reports (from propagated load over effective
\* capacity) for the non-client critical-path nodes; with a failed node on
\* the critical path it is 1.
C15_ErrorRateFollowsIncomingLoad ==
    TickCalled =>
        LET path == analyzeTopology(cur.nodes, cur.edges).criticalPath
            failedOnPath == \E i \in 1..Len(path) : FindNode(cur.nodes, path[i]).isFailed
            worst == MaxTickErrorRate(cur.nodes, cur.result.nodeUpdates, path)
        IN IF failedOnPath THEN cur.result.metrics.errorRate = 10000
           ELSE cur.result.metrics.errorRate = RoundDiv(worst[1], worst[2])

\* ------------------------------------------------------------------------
\* Nodes without catalog entry (SpecMetrics)
\* ------------------------------------------------------------------------
KnownNodes(ns) == SelectSeq(ns, LAMBDA n : HasDef(n.componentType))

\* C14: unknown component kind.  A node whose componentType has no catalog
\* entry makes no engine function throw and contributes nothing to the
\* capacity, latency and cost aggregates: criticalPathLatency and latencyP50
\* count zero latency for it, throughput and the bottleneck no capacity limit,
\* monthlyCost zero cost.
C14_UnknownKindContributesNothing ==
    MetricsCalled =>
        LET ns == cur.nodes
            path == cur.topology.criticalPath
            known == KnownNodes(ns)
            total == pathLatency(ns, path) + 2 * Max2(0, Len(path) - 1)
            caps == PathCapacities(ns, path)
        IN /\ cur.topology.criticalPathLatency = pathLatency(ns, path)
           /\ cur.result.latencyP50 = RoundDiv(total * (IF HasKind(ns, CacheKinds) THEN 6 ELSE 10), 10)
           /\ cur.result.throughput =
                  (IF path = <<>> THEN 0
                   ELSE IF caps = {} THEN cur.trafficLoad
                   ELSE Min2(cur.trafficLoad, SetMin(caps)))
           /\ cur.topology.bottleneckNodeId /= Null =>
                  HasDef(FindNode(ns, cur.topology.bottleneckNodeId[1]).componentType)
           /\ cur.result.monthlyCost =
                  SumSeq([i \in 1..Len(known) |->
                      Def(known[i].componentType).costPerInstancePerMonth * EffReplicas(known[i])])

\* ------------------------------------------------------------------------
\* More properties of SpecValidate
\* ------------------------------------------------------------------------
HasCriticalFailure(report) ==
    \E i \in 1..Len(ReportChecks(report)) :
        /\ ReportChecks(report)[i].outcome = "fail"
        /\ ReportChecks(report)[i].severity = "critical"

\* C16: verdict on critical failure.  Whenever at least one check of the
\* report has outcome fail with severity critical, the verdict is the negative
\* framing (isPositive = FALSE), for every overallScore and every scale tier.
C16_CriticalFailureIsNegative ==
    (Validated /\ HasCriticalFailure(cur.result)) =>
        /\ cur.result.verdict.isPositive = FALSE
        /\ cur.result.verdict.badge = "Critical Issues"

\* A report with a critical failure and a score of 85 or more, which without
\* the failure would read as sound, is framed negatively.
C16_Witness ==
    /\ Validated
    /\ HasCriticalFailure(cur.result)
    /\ cur.result.overallScore >= 85
    /\ cur.result.verdict.isPositive = FALSE

\* ------------------------------------------------------------------------
\* More properties of SpecTopo
\* ------------------------------------------------------------------------
TopoCalled == cur.fn = "analyzeTopology"

\* C17: for every graph, every id in spofNodeIds names a node that is of
\* neither category clients nor observability and has at most one replica;
\* and every non-client, non-observability node on the critical path with at
\* most one replica is in spofNodeIds.
C17_SpofMembership ==
    TopoCalled =>
        LET ns == cur.nodes
            spofs == cur.result.spofNodeIds
            path == cur.result.criticalPath
        IN /\ \A i \in 1..Len(spofs) :
                 LET node == FindNode(ns, spofs[i])
                 IN node /= NoNode /\ ~SpofExempt(node) /\ node.replicas <= 1
           /\ \A i \in 1..Len(path) :
                 LET node == FindNode(ns, path[i])
                 IN (node /= NoNode /\ ~SpofExempt(node) /\ node.replicas <= 1)
                        => Includes(spofs, path[i])

\* p is a simple path of the graph: no node twice, an edge between neighbours.
IsSimplePath(es, p) ==
    /\ \A i \in 1..Len(p) : \A j \in 1..Len(p) : i /= j => p[i] /= p[j]
    /\ \A i \in 1..(Len(p) - 1) :
          \E k \in 1..Len(es) : es[k].source = p[i] /\ es[k].target = p[i + 1]

\* Sum of the catalog base latencies of the nodes of p.
BaseLatencySum(ns, p) ==
    SumSeq([i \in 1..Len(p) |->
        IF HasDef(FindNode(ns, p[i]).componentType)
        THEN Def(FindNode(ns, p[i]).componentType).baseLatency ELSE 0])

\* The simple paths from a source to a sink.
SourceToSinkPaths(ns, es) ==
    LET ids == Range(NodeIds(ns))
        srcs == Range(findSourceNodes(ns, es))
        sinks == Range(findSinkNodes(ns, es))
    IN {p \in UNION {[1..k -> ids] : k \in 1..Len(ns)} :
           IsSimplePath(es, p) /\ p[1] \in srcs /\ p[Len(p)] \in sinks}

\* The paths the depth-first traversal completes below path, in the order it
\* completes them: a path is complete at a node without unvisited successor.
RECURSIVE LeafPaths(_, _, _)
RECURSIVE LeafPathsEach(_, _, _, _)
LeafPaths(es, path, visited) ==
    LET unvisited == SelectSeq(buildAdjacencyList(es, path[Len(path)]),
                               LAMBDA x : x \notin visited)
    IN IF unvisited = <<>> THEN <<path>>
       ELSE LeafPathsEach(es, unvisited, path, visited)

LeafPathsEach(es, todo, path, visited) ==
    IF todo = <<>> THEN <<>>
    ELSE LeafPaths(es, Append(path, Head(todo)), visited \cup {Head(todo)})
             \o LeafPathsEach(es, Tail(todo), path, visited)

RECURSIVE TraversalOrder(_, _)
TraversalOrder(es, srcs) ==
    IF srcs = <<>> THEN <<>>
    ELSE LeafPaths(es, <<Head(srcs)>>, {Head(srcs)}) \o TraversalOrder(es, Tail(srcs))

\* C19: critical path.  For every graph with at least one source,
\* criticalPath is a simple path that starts at a source, criticalPathLatency
\* is the sum of its nodes' base latencies and is at least the accumulated
\* latency of every simple source-to-sink path; among the paths of equal
\* latency the first in traversal order is kept; a non-empty graph with no
\* source yields the single-node path of the first node.
C19_CriticalPath ==
    (TopoCalled /\ cur.nodes /= <<>>) =>
        LET ns == cur.nodes
            es == cur.edges
            srcs == findSourceNodes(ns, es)
            path == cur.result.criticalPath
            latency == cur.result.criticalPathLatency
            order == TraversalOrder(es, srcs)
        IN IF srcs = <<>> THEN path = <<ns[1].id>>
           ELSE /\ path /= <<>>
                /\ IsSimplePath(es, path)
                /\ Includes(srcs, path[1])
                /\ latency = BaseLatencySum(ns, path)
                /\ \A p \in SourceToSinkPaths(ns, es) : latency >= BaseLatencySum(ns, p)
                /\ \E k \in 1..Len(order) :
                      /\ order[k] = path
                      /\ \A j \in 1..Len(order) : BaseLatencySum(ns, order[j]) <= BaseLatencySum(ns, path)
                      /\ \A j \in 1..(k - 1) : BaseLatencySum(ns, order[j]) < BaseLatencySum(ns, path)

\* ------------------------------------------------------------------------
\* SpecSpof: analyzeTopology on graphs with several sources and long paths
\* ------------------------------------------------------------------------
SpofKinds == {"web-server", "llm-inference"}

\* The lists of k pairwise different edges that lead from a node to a node
\* drawn after it.
ForwardEdgeLists(n, k) ==
    {es \in [1..k -> {p \in Pairs(n) : p.source < p.target}] :
        \A i \in 1..k : \A j \in 1..k : i /= j => es[i] /= es[j]}

InitSpof ==
    /\ \E n \in 0..MaxSpofNodes : \E k \in 0..MaxSpofEdges : \E ns \in NodeLists(SpofKinds, n) :
          /\ nodes \in WithOneReplicated(ns)
          /\ edges \in ForwardEdgeLists(n, k)
    /\ trafficLoad = 1000
    /\ trafficPattern = "steady"
    /\ activeScenario = NoScenario
    /\ now = 0
    /\ cur = NoCall
    /\ prev = NoCall
    /\ alerts = <<>>
    /\ loop = NoLoop
    /\ hook = NoHook
    /\ nodeIdCounter = Len(nodes)
    /\ timers = <<>>
    /\ templateLoads = <<>>
    /\ injections = <<>>

\* The analysis the canvas asks for once the graph is drawn.
AnalyzeOnce ==
    /\ cur = NoCall
    /\ CallAnalyzeTopology

NextSpof == AnalyzeOnce

SpecSpof == InitSpof /\ [][NextSpof]_vars

\* Removing id makes a sink that some source reached unreachable from every
\* source.
CutsSinkOffEverySource(ns, es, id) ==
    LET sources == Range(findSourceNodes(ns, es)) \ {id}
        sinks == Range(findSinkNodes(ns, es)) \ {id}
        rest == RemainingEdges(es, id)
    IN \E sink \in sinks :
          /\ \E src \in sources : sink \in Reachable(es, src)
          /\ \A src \in sources : sink \notin Reachable(rest, src)

\* C18: structural SPOF rule.  A node that is not on the critical path is in
\* spofNodeIds only if its removal makes some sink, reachable from a source
\* before the removal, unreachable from every source; a node whose removal
\* cuts a sink off from one source while another source still reaches the
\* sink is not flagged.
C18_StructuralSpofRule ==
    TopoCalled =>
        \A i \in 1..Len(cur.result.spofNodeIds) :
            LET id == cur.result.spofNodeIds[i]
            IN ~Includes(cur.result.criticalPath, id)
                   => CutsSinkOffEverySource(cur.nodes, cur.edges, id)

\* ------------------------------------------------------------------------
\* SpecLoop: the while loop of propagateLoad, one iteration per step
\* ------------------------------------------------------------------------
\* A variant that forgets which nodes were visited.
neverVisited(visited, nodeId) == FALSE

\* visited.has(nodeId)
alreadyVisited(visited, nodeId) == nodeId \in visited

\* Edge lists as a shared link can carry them: any k edges between the nodes
\* 1..n, self-loops and repeated edges included.
ParallelEdgeLists(n, k) == [1..k -> Pairs(n)]

InitLoop ==
    /\ \E n \in 0..MaxNodes : \E k \in 0..MaxLoopEdges :
          /\ nodes \in NodeLists({"web-server"}, n)
          /\ edges \in ParallelEdgeLists(n, k)
    /\ trafficLoad = 1000
    /\ trafficPattern = "steady"
    /\ activeScenario = NoScenario
    /\ now = 0
    /\ cur = NoCall
    /\ prev = NoCall
    /\ alerts = <<>>
    /\ loop = NoLoop
    /\ hook = NoHook
    /\ nodeIdCounter = Len(nodes)
    /\ timers = <<>>
    /\ templateLoads = <<>>
    /\ injections = <<>>

\* From the entry of propagateLoad to the first test of the while loop:
\* the sources share the traffic load and form the queue.  distributed
\* counts, per node, the executions of the distributing branch.
StartPropagateLoad ==
    /\ loop.pc = "idle"
    /\ LET sources == SelectSeq(nodes, LAMBDA n : inDegree(edges, n.id) = 0)
           perSource == IF Len(sources) > 0
                        THEN FracDiv(FracOf(trafficLoad), Len(sources))
                        ELSE FracOf(0)
           ids == Range(NodeIds(nodes))
       IN loop' = [pc |-> "loop",
                   loadMap |-> [id \in ids |->
                                   IF id \in Range(NodeIds(sources)) THEN Some(perSource)
                                   ELSE Null],
                   queue |-> NodeIds(sources),
                   visited |-> {},
                   distributed |-> [id \in ids |-> 0]]
    /\ UNCHANGED <<nodes, edges, trafficLoad, trafficPattern, activeScenario, now, cur,
                   prev, alerts,
                   hook, nodeIdCounter, timers, templateLoads, injections>>

\* An iteration that dequeues a node already visited: continue.
SkipVisited ==
    /\ loop.pc = "loop"
    /\ loop.queue /= <<>>
    /\ alreadyVisited(loop.visited, Head(loop.queue))
    /\ loop' = [loop EXCEPT !.queue = Tail(@)]
    /\ UNCHANGED <<nodes, edges, trafficLoad, trafficPattern, activeScenario, now, cur,
                   prev, alerts,
                   hook, nodeIdCounter, timers, templateLoads, injections>>

\* An iteration that dequeues a node for the first time: the node is marked
\* and, if it has neighbours, hands each an equal share and enqueues them.
VisitNode ==
    /\ loop.pc = "loop"
    /\ loop.queue /= <<>>
    /\ ~alreadyVisited(loop.visited, Head(loop.queue))
    /\ LET nodeId == Head(loop.queue)
           incomingLoad == loadOf(loop.loadMap, nodeId)
           neighbors == buildAdjacencyList(edges, nodeId)
       IN loop' = IF Len(neighbors) > 0
                  THEN [loop EXCEPT
                           !.visited = @ \cup {nodeId},
                           !.loadMap = distributeToNeighbors(@, neighbors,
                                           perNeighborShare(incomingLoad, Len(neighbors))),
                           !.queue = Tail(@) \o neighbors,
                           !.distributed[nodeId] = @ + 1]
                  ELSE [loop EXCEPT !.visited = @ \cup {nodeId}, !.queue = Tail(@)]
    /\ UNCHANGED <<nodes, edges, trafficLoad, trafficPattern, activeScenario, now, cur,
                   prev, alerts,
                   hook, nodeIdCounter, timers, templateLoads, injections>>

\* The queue is empty: the nodes without entry get 0 and the map is returned.
FinishPropagateLoad ==
    /\ loop.pc = "loop"
    /\ loop.queue = <<>>
    /\ loop' = [loop EXCEPT !.pc = "done",
                            !.loadMap = [id \in DOMAIN @ |-> Some(loadOf(@, id))]]
    /\ cur' = [fn |-> "propagateLoad", nodes |-> nodes, edges |-> edges,
               trafficLoad |-> trafficLoad,
               result |-> [id \in DOMAIN loop.loadMap |-> loadOf(loop.loadMap, id)]]
    /\ UNCHANGED <<nodes, edges, trafficLoad, trafficPattern, activeScenario, now, prev,
                   alerts,
                   hook, nodeIdCounter, timers, templateLoads, injections>>

NextLoop ==
    \/ StartPropagateLoad
    \/ SkipVisited
    \/ VisitNode
    \/ FinishPropagateLoad

\* propagateLoad is synchronous: once entered, its loop keeps taking steps.
SpecLoop == InitLoop /\ [][NextLoop]_vars /\ WF_vars(NextLoop)

LoopRunning == loop.pc = "loop"

LoopDone == loop.pc = "done"

\* The nodes some source reaches along the edges, the sources included.
ReachedFromSources(ns, es) ==
    ReachFrom(es, {ns[i].id : i \in {j \in 1..Len(ns) : inDegree(es, ns[j].id) = 0}})

DistributesAtMostOnce ==
    (LoopRunning \/ LoopDone) =>
        \A id \in DOMAIN loop.distributed : loop.distributed[id] <= 1

UnreachedEndAtZero ==
    LoopDone =>
        \A id \in DOMAIN cur.result :
            id \notin ReachedFromSources(nodes, edges) => cur.result[id] = FracOf(0)

\* The step-wise loop returns what propagateLoad computes in one piece.
LoopAgreesWithPropagateLoad ==
    LoopDone => cur.result = propagateLoad(nodes, edges, trafficLoad)

\* C20: propagateLoad terminates on every finite graph, with cycles,
\* self-loops and parallel edges; each node distributes its load at most once
\* per call; every node never reached from a source ends with load 0.
C20_PropagateLoadTerminates ==
    /\ [](DistributesAtMostOnce /\ UnreachedEndAtZero)
    /\ (LoopRunning ~> LoopDone)

\* A finished call on a graph with a repeated edge whose source handed out
\* its load, a self-loop, and a node that no source reaches and that ends
\* with load 0.
C20_Witness ==
    /\ LoopDone
    /\ \E i \in 1..Len(edges) : \E j \in 1..Len(edges) :
          /\ i /= j
          /\ edges[i] = edges[j]
          /\ loop.distributed[edges[i].source] = 1
    /\ \E i \in 1..Len(edges) : edges[i].source = edges[i].target
    /\ \E id \in DOMAIN cur.result :
          id \notin ReachedFromSources(nodes, edges) /\ cur.result[id] = FracOf(0)

\* ------------------------------------------------------------------------
\* SpecFlow: propagateLoad on graphs where a node is reached along paths of
\* different lengths
\* ------------------------------------------------------------------------
InitFlow ==
    /\ \E n \in 0..MaxFlowNodes : \E k \in 0..MaxFlowEdges :
          /\ nodes \in NodeLists({"web-server"}, n)
          /\ edges \in EdgeLists(n, k, FALSE)
    /\ trafficLoad = 1000
    /\ trafficPattern = "steady"
    /\ activeScenario = NoScenario
    /\ now = 0
    /\ cur = NoCall
    /\ prev = NoCall
    /\ alerts = <<>>
    /\ loop = NoLoop
    /\ hook = NoHook
    /\ nodeIdCounter = Len(nodes)
    /\ timers = <<>>
    /\ templateLoads = <<>>
    /\ injections = <<>>

\* The propagation the first tick asks for.
PropagateOnce ==
    /\ cur = NoCall
    /\ CallPropagateLoad

NextFlow == PropagateOnce

SpecFlow == InitFlow /\ [][NextFlow]_vars

\* No edge closes a cycle.
IsAcyclic(es) == \A i \in 1..Len(es) : es[i].source \notin Reachable(es, es[i].target)

RECURSIVE FracSum(_)
FracSum(s) == IF s = <<>> THEN FracOf(0) ELSE FracAdd(Head(s), FracSum(Tail(s)))

\* What the edges into id carry when every node forwards its final load in
\* equal shares.
ForwardedInto(es, loadMap, id) ==
    FracSum([i \in 1..Len(SelectSeq(es, LAMBDA e : e.target = id)) |->
                LET e == SelectSeq(es, LAMBDA x : x.target = id)[i]
                IN FracDiv(loadMap[e.source], Len(buildAdjacencyList(es, e.source)))])

\* C21: load is conserved.  On every non-empty acyclic graph (all of whose
\* nodes a source reaches) each node that has incoming edges ends with what
\* its predecessors forward when they hand on their whole final load, and
\* the loads of the sinks sum to trafficLoad, also when a node is reached by
\* paths of different lengths.
C21_LoadConserved ==
    (LoadCalled /\ Len(cur.nodes) > 0 /\ IsAcyclic(cur.edges)
        /\ ReachedFromSources(cur.nodes, cur.edges) = Range(NodeIds(cur.nodes))) =>
        /\ \A id \in Range(NodeIds(cur.nodes)) :
              inDegree(cur.edges, id) > 0
                  => cur.result[id] = ForwardedInto(cur.edges, cur.result, id)
        /\ LET sinks == findSinkNodes(cur.nodes, cur.edges)
           IN FracSum([i \in 1..Len(sinks) |-> cur.result[sinks[i]]])
                  = FracOf(cur.trafficLoad)

\* ------------------------------------------------------------------------
\* Score aggregation (SpecValidate)
\* ------------------------------------------------------------------------
ValidateCalled == cur /= NoCall /\ cur.fn = "validate"

\* round(n / d) for d > 0, as the nearest integer, halves upwards.
NearestInt(n, d) == (2 * n + d) \div (2 * d)

ImpactSum(checks, outcomes) ==
    SumSeq([i \in 1..Len(checks) |->
               IF checks[i].outcome \in outcomes THEN checks[i].scoreImpact ELSE 0])

\* The score a dimension is to have, from its checks alone.
ExpectedDimensionScore(checks) ==
    LET total == ImpactSum(checks, {"pass", "advisory", "fail"})
    IN IF total = 0 THEN 100
       ELSE NearestInt(100 * ImpactSum(checks, {"pass"})
                           + 70 * ImpactSum(checks, {"advisory"}), total)

ExpectedOverallScore(dimensions) ==
    LET ids == {dimensions[i].id : i \in 1..Len(dimensions)}
        weightOf == [id \in ids |->
                        CASE id = "reliability" -> 25
                          [] id = "performance" -> 20
                          [] id = "dataIntegrity" -> 15
                          [] id = "security" -> 15
                          [] id = "observability" -> 10
                          [] id = "ai" -> 15]
    IN NearestInt(SumSeq([i \in 1..Len(dimensions) |->
                             dimensions[i].score * weightOf[dimensions[i].id]]),
                  IF "ai" \in ids THEN 100 ELSE 85)

\* C22: score aggregation.  Every dimension score is round(100 x (pass
\* impact + 0.7 x advisory impact) / total impact), or 100 without checks or
\* with checks that all weigh 0; overallScore is round(sum of score x weight
\* / W) with the fixed weights and W = 100 with the ai dimension, 85 without;
\* every score is an integer in 0..100.
C22_ScoreAggregation ==
    ValidateCalled =>
        /\ \A i \in 1..Len(cur.result.dimensions) :
              /\ cur.result.dimensions[i].score
                     = ExpectedDimensionScore(cur.result.dimensions[i].checks)
              /\ cur.result.dimensions[i].score \in 0..100
        /\ cur.result.overallScore = ExpectedOverallScore(cur.result.dimensions)
        /\ cur.result.overallScore \in 0..100

\* A report with the ai dimension in which some dimension mixes a pass, an
\* advisory of positive weight and a failure.
C22_Witness ==
    /\ ValidateCalled
    /\ \E i \in 1..Len(cur.result.dimensions) : cur.result.dimensions[i].id = "ai"
    /\ \E i \in 1..Len(cur.result.dimensions) :
          LET checks == cur.result.dimensions[i].checks
          IN /\ ImpactSum(checks, {"pass"}) > 0
             /\ ImpactSum(checks, {"advisory"}) > 0
             /\ ImpactSum(checks, {"fail"}) > 0
             /\ cur.result.dimensions[i].score \in 1..99

\* ------------------------------------------------------------------------
\* Availability and the SPOF set (SpecMetrics)
\* ------------------------------------------------------------------------
RECURSIVE Pow10(_)
Pow10(d) == IF d = 0 THEN 1 ELSE 10 * Pow10(d - 1)

\* a <= b for two probabilities given by their complements.
ProbAtMost(a, b) == b[1] * Pow10(a[2]) <= a[1] * Pow10(b[2])

\* s without its i-th element.
WithoutIndex(s, i) == SubSeq(s, 1, i - 1) \o SubSeq(s, i + 1, Len(s))

\* C23: SPOFs are failure points in series.  Enlarging the SPOF set by one
\* more node never increases the availability computeMetrics returns, and
\* with at least one SPOF the availability never exceeds the availabilitySLA
\* of any SPOF node (of a kind the catalog knows).
C23_SpofsInSeries ==
    (cur /= NoCall /\ MetricsCalled) =>
        LET spofs == cur.topology.spofNodeIds
        IN \A i \in 1..Len(spofs) :
              LET node == FindNode(cur.nodes, spofs[i])
                  fewer == [cur.topology EXCEPT !.spofNodeIds = WithoutIndex(spofs, i)]
              IN /\ ProbAtMost(cur.result.availability,
                               computeAvailability(cur.nodes, fewer))
                 /\ HasDef(node.componentType)
                        => ProbAtMost(cur.result.availability,
                                      Def(node.componentType).unavailability)

\* ------------------------------------------------------------------------
\* SpecFrames: the animation frames of useSimulation
\* ------------------------------------------------------------------------
\* The speeds of the toolbar.  FrameStep is the time, in ms, that the model
\* lets pass between two frames.
SimulationSpeeds == {1, 5, 10}

\* A variant for which every frame is due.
everyFrameDue(clock, lastTick, simulationSpeed) == TRUE

\* !(now - lastTickRef.current < 1000 / simulationSpeed), for a speed > 0
tickDue(clock, lastTick, simulationSpeed) == ~((clock - lastTick) * simulationSpeed < 1000)

InitFrames ==
    /\ nodes \in {<<>>, <<SimNode(1, "web-server")>>}
    /\ edges = <<>>
    /\ trafficLoad = 1000
    /\ trafficPattern = "steady"
    /\ activeScenario = NoScenario
    /\ now = 0
    /\ cur = NoCall
    /\ prev = NoCall
    /\ alerts = <<>>
    /\ loop = NoLoop
    /\ hook = NoHook
    /\ nodeIdCounter = Len(nodes)
    /\ timers = <<>>
    /\ templateLoads = <<>>
    /\ injections = <<>>

\* Time passes until the scheduler fires the next frame.
NextFrameTime ==
    /\ now + FrameStep <= MaxFrameTime
    /\ now' = now + FrameStep
    /\ UNCHANGED <<nodes, edges, trafficLoad, trafficPattern, activeScenario, cur, prev,
                   alerts, loop, hook, nodeIdCounter, timers, templateLoads, injections>>

SetRunning(running) ==
    /\ running /= hook.isRunning
    /\ hook' = [hook EXCEPT !.isRunning = running]
    /\ UNCHANGED <<nodes, edges, trafficLoad, trafficPattern, activeScenario, now, cur,
                   prev, alerts, loop, nodeIdCounter, timers, templateLoads, injections>>

SetSimulationSpeed(speed) ==
    /\ speed /= hook.simulationSpeed
    /\ hook' = [hook EXCEPT !.simulationSpeed = speed]
    /\ UNCHANGED <<nodes, edges, trafficLoad, trafficPattern, activeScenario, now, cur,
                   prev, alerts, loop, nodeIdCounter, timers, templateLoads, injections>>

\* The callback of requestAnimationFrame.  It returns early while the
\* simulation is stopped, the canvas is empty or the interval has not
\* passed; otherwise it notes the time and runs one tick.  cur is the frame,
\* prev the latest frame that ran a tick.
AnimationFrame(percent) ==
    /\ prev' = IF cur /= NoCall /\ cur.fn = "simulationTick" THEN cur ELSE prev
    /\ IF ~hook.isRunning \/ Len(nodes) = 0
          \/ ~tickDue(now, hook.lastTick, hook.simulationSpeed)
       THEN /\ cur' = [fn |-> "frameSkipped", at |-> now, ticks |-> 0]
            /\ UNCHANGED <<nodes, alerts, hook>>
       ELSE /\ hook' = [hook EXCEPT !.lastTick = now]
            /\ LET effectiveLoad == (trafficLoad * percent) \div 100
               IN cur' = [fn |-> "simulationTick", at |-> now, ticks |-> 1,
                          simulationSpeed |-> hook.simulationSpeed,
                          nodes |-> nodes, edges |-> edges,
                          trafficLoad |-> effectiveLoad, previousAlerts |-> alerts,
                          result |-> simulationTick(nodes, edges, effectiveLoad, alerts, now)]
            /\ nodes' = updatedNodes(nodes, cur'.result.nodeUpdates)
            /\ alerts' = IF Len(cur'.result.alerts) > 0
                         THEN addAlerts(alerts, cur'.result.alerts)
                         ELSE alerts
    /\ UNCHANGED <<edges, trafficLoad, trafficPattern, activeScenario, now, loop,
                   nodeIdCounter, timers, templateLoads, injections>>

NextFrames ==
    \/ NextFrameTime
    \/ \E running \in BOOLEAN : SetRunning(running)
    \/ \E speed \in SimulationSpeeds : SetSimulationSpeed(speed)
    \/ \E percent \in Modulations(trafficPattern) : AnimationFrame(percent)

SpecFrames == InitFrames /\ [][NextFrames]_vars

\* C24: tick gating.  A frame executes simulationTick only while the
\* simulation runs on a non-empty graph and at least 1000/speed ms have
\* passed since the last executed tick; no frame executes more than one tick,
\* a skipped frame leaves nothing queued, and two executed ticks are at
\* least 1000/speed ms apart.
C24_TickGating ==
    (cur /= NoCall /\ cur.fn \in {"simulationTick", "frameSkipped"}) =>
        /\ cur.ticks <= 1
        /\ timers = <<>>
        /\ cur.ticks = 1 =>
              /\ Len(cur.nodes) > 0
              /\ prev /= NoCall => (cur.at - prev.at) * cur.simulationSpeed >= 1000

\* A tick that follows an earlier tick after exactly the interval of a
\* speed raised in between.
C24_Witness ==
    /\ cur /= NoCall /\ cur.fn = "simulationTick"
    /\ prev /= NoCall
    /\ cur.simulationSpeed = 10
    /\ prev.simulationSpeed = 1
    /\ (cur.at - prev.at) * cur.simulationSpeed = 1000
    /\ hook.lastTick = cur.at

\* ------------------------------------------------------------------------
\* SpecFailure: failure injection, its timers, and the node operations
\* ------------------------------------------------------------------------
\* The delay of the timer that ends an injected failure, in ms.
FailureDuration == 10000

\* setNodeFailed(id, failed) of the canvas store, on the node list.
setNodeFailed(ns, id, failed) ==
    [i \in 1..Len(ns) |->
        IF ns[i].id = id
        THEN [ns[i] EXCEPT !.isFailed = failed,
                           !.status = IF failed THEN "failed" ELSE "healthy"]
        ELSE ns[i]]

InitFailure ==
    /\ nodes = <<SimNode(1, "web-server")>>
    /\ edges = <<>>
    /\ trafficLoad = 1000
    /\ trafficPattern = "steady"
    /\ activeScenario = NoScenario
    /\ now = 0
    /\ cur = NoCall
    /\ prev = NoCall
    /\ alerts = <<>>
    /\ loop = NoLoop
    /\ hook = NoHook
    /\ nodeIdCounter = Len(nodes)
    /\ timers = <<>>
    /\ templateLoads = <<>>
    /\ injections = <<>>

\* injectFailure with node i as the random choice among the nodes that are
\* no clients.
InjectFailure(i) ==
    /\ Len(injections) < MaxInjections
    /\ i \in 1..Len(nodes)
    /\ nodes[i].componentType \notin {"web-client", "mobile-client", "api-consumer"}
    /\ nodes' = setNodeFailed(nodes, nodes[i].id, TRUE)
    /\ timers' = Append(timers, [fn |-> "endFailure", due |-> now + FailureDuration,
                                 nodeId |-> nodes[i].id])
    /\ injections' = Append(injections, [nodeId |-> nodes[i].id, at |-> now])
    /\ UNCHANGED <<edges, trafficLoad, trafficPattern, activeScenario, now, cur, prev,
                   alerts, loop, hook, nodeIdCounter, templateLoads>>

\* The timers that are due, and the one the event loop runs first.
DueTimers == {k \in 1..Len(timers) : timers[k].due <= now}

FirstDue ==
    CHOOSE k \in DueTimers :
        \A j \in DueTimers :
            timers[k].due < timers[j].due \/ (timers[k].due = timers[j].due /\ k <= j)

\* The callback of injectFailure's timer.
FailureTimerFires ==
    /\ DueTimers /= {}
    /\ timers[FirstDue].fn = "endFailure"
    /\ nodes' = setNodeFailed(nodes, timers[FirstDue].nodeId, FALSE)
    /\ timers' = WithoutIndex(timers, FirstDue)
    /\ UNCHANGED <<edges, trafficLoad, trafficPattern, activeScenario, now, cur, prev,
                   alerts, loop, hook, nodeIdCounter, templateLoads, injections>>

\* Time passes; a timer that is due runs before time passes on.
FailureTimePasses ==
    /\ DueTimers = {}
    /\ now + FailureStep <= MaxFailureTime
    /\ now' = now + FailureStep
    /\ UNCHANGED <<nodes, edges, trafficLoad, trafficPattern, activeScenario, cur, prev,
                   alerts, loop, hook, nodeIdCounter, timers, templateLoads, injections>>

\* Numbers.  nodeIdCounter and the numeric part of an id are IEEE-754
\* doubles.  A number below Beyond is written as itself; Beyond + k is
\* written for 2^53 + k, where the doubles are the even k only.
Beyond == 1000000

\* The double nearest to 2^53 + k, as its k: an odd k lies halfway between
\* two doubles and goes to the one whose mantissa is even.
roundToDouble(k) ==
    IF k % 2 = 0 THEN k
    ELSE IF ((k - 1) \div 2) % 2 = 0 THEN k - 1
    ELSE k + 1

\* The value of ++nodeIdCounter.
incremented(counter) ==
    IF counter < Beyond THEN counter + 1
    ELSE Beyond + roundToDouble(counter - Beyond + 1)

\* createNodeId: `node-${++nodeIdCounter}`.  The id "node-K" is written K.
createNodeId(counter) == incremented(counter)

\* The counter values from which the model lets an id be created: the small
\* ones up to the bound, and the ones from 2^53 on, which the increment
\* itself keeps within two steps.
CounterInBounds == nodeIdCounter < MaxIdCounter \/ nodeIdCounter >= Beyond

\* duplicateNode(id) on the node at position i: a copy of the node, data
\* included, under a fresh id.
DuplicateNode(i) ==
    /\ i \in 1..Len(nodes)
    /\ Len(nodes) < MaxNodes
    /\ CounterInBounds
    /\ nodeIdCounter' = incremented(nodeIdCounter)
    /\ nodes' = Append(nodes, [nodes[i] EXCEPT !.id = createNodeId(nodeIdCounter),
                                               !.label = @ \o " (copy)"])
    /\ UNCHANGED <<edges, trafficLoad, trafficPattern, activeScenario, now, cur, prev,
                   alerts, loop, hook, timers, templateLoads, injections>>

\* removeNode(id) on the node at position i.
RemoveNode(i) ==
    /\ i \in 1..Len(nodes)
    /\ nodes' = SelectSeq(nodes, LAMBDA n : n.id /= nodes[i].id)
    /\ edges' = SelectSeq(edges, LAMBDA e : e.source /= nodes[i].id /\ e.target /= nodes[i].id)
    /\ UNCHANGED <<trafficLoad, trafficPattern, activeScenario, now, cur, prev, alerts,
                   loop, hook, nodeIdCounter, timers, templateLoads, injections>>

\* A tick of useSimulation between the other events: simulationTick, the
\* write-back that leaves isFailed alone, and addAlerts.
FailureTick(percent) ==
    /\ Len(nodes) > 0
    /\ \E result \in {simulationTick(nodes, edges, (trafficLoad * percent) \div 100,
                                      alerts, now)} :
          /\ nodes' = updatedNodes(nodes, result.nodeUpdates)
          /\ alerts' = IF Len(result.alerts) > 0 THEN addAlerts(alerts, result.alerts)
                       ELSE alerts
    /\ UNCHANGED <<edges, trafficLoad, trafficPattern, activeScenario, now, cur, prev,
                   loop, hook, nodeIdCounter, timers, templateLoads, injections>>

NextFailure ==
    \/ \E i \in 1..MaxNodes : InjectFailure(i)
    \/ FailureTimerFires
    \/ FailureTimePasses
    \/ \E i \in 1..MaxNodes : DuplicateNode(i)
    \/ \E i \in 1..MaxNodes : RemoveNode(i)
    \/ \E percent \in Modulations(trafficPattern) : FailureTick(percent)

SpecFailure == InitFailure /\ [][NextFailure]_vars

\* An injectFailure targeting id started within the last FailureDuration ms.
RecentlyInjected(id) ==
    \E k \in 1..Len(injections) :
        injections[k].nodeId = id /\ now - injections[k].at < FailureDuration

\* C25: failure injection lasts a fixed duration.  Whenever no timer is
\* overdue, a node's isFailed flag is true iff an injectFailure targeting the
\* node started within the last 10 seconds, under any interleaving of
\* repeated injections, duplicateNode, removeNode and ticks.
C25_FailureLastsFixedDuration ==
    DueTimers = {} =>
        \A i \in 1..Len(nodes) : nodes[i].isFailed <=> RecentlyInjected(nodes[i].id)

\* ------------------------------------------------------------------------
\* SpecIds: the node ids of the canvas store
\* ------------------------------------------------------------------------
\* Ids.  K >= 1 is the id "node-K" (K >= Beyond as for numbers); -K, for a
\* small K, is the bare id "K"; NoDigitsId is an id without a digit.
NoDigitsId == 0 - Beyond

\* The ids a shared architecture may carry into loadNodes.
LoadableIds ==
    (1..MaxIdCounter) \cup {0 - K : K \in 1..MaxIdCounter} \cup {NoDigitsId}
        \cup {Beyond + k : k \in 0..3}

\* parseInt(n.id.replace("node-", ""), 10); Null is NaN.
parsedNumber(id) ==
    IF id >= Beyond THEN Some(Beyond + roundToDouble(id - Beyond))
    ELSE IF id >= 1 THEN Some(id)
    ELSE IF id > NoDigitsId THEN Some(0 - id)
    ELSE Null

\* The reduce of loadNodes over the nodes from position i on.
RECURSIVE maxLoadedId(_, _, _)
maxLoadedId(ns, i, max) ==
    IF i > Len(ns) THEN max
    ELSE maxLoadedId(ns, i + 1,
                     IF parsedNumber(ns[i].id) = Null THEN max
                     ELSE IF parsedNumber(ns[i].id)[1] > max THEN parsedNumber(ns[i].id)[1]
                     ELSE max)

\* The node lists of loadNodes: up to MaxLoaded nodes with pairwise
\* different ids.
LoadableNodeLists ==
    UNION {{[i \in 1..n |-> SimNode(f[i], "web-server")] :
               f \in {g \in [1..n -> LoadableIds] :
                         \A i \in 1..n : \A j \in 1..n : i /= j => g[i] /= g[j]}} :
           n \in 0..MaxLoaded}

\* The edges loaded with a node list: none, or one from the first node to
\* the last.
LoadableEdgeLists(ns) ==
    {<<>>} \cup (IF Len(ns) >= 2
                 THEN {<<[source |-> ns[1].id, target |-> ns[Len(ns)].id]>>}
                 ELSE {})

InitIds ==
    /\ nodes = <<>>
    /\ edges = <<>>
    /\ trafficLoad = 1000
    /\ trafficPattern = "steady"
    /\ activeScenario = NoScenario
    /\ now = 0
    /\ cur = NoCall
    /\ prev = NoCall
    /\ alerts = <<>>
    /\ loop = NoLoop
    /\ hook = NoHook
    /\ nodeIdCounter = Len(nodes)
    /\ timers = <<>>
    /\ templateLoads = <<>>
    /\ injections = <<>>

\* addNode(type, position): nothing happens for a type without a catalog
\* entry.
AddNode(kind) ==
    /\ kind \in CatalogKinds
    /\ Len(nodes) < MaxNodes
    /\ CounterInBounds
    /\ nodeIdCounter' = incremented(nodeIdCounter)
    /\ nodes' = Append(nodes, SimNode(createNodeId(nodeIdCounter), kind))
    /\ UNCHANGED <<edges, trafficLoad, trafficPattern, activeScenario, now, cur, prev,
                   alerts, loop, hook, timers, templateLoads, injections>>

\* clearCanvas
ClearCanvas ==
    /\ nodes' = <<>>
    /\ edges' = <<>>
    /\ nodeIdCounter' = 0
    /\ UNCHANGED <<trafficLoad, trafficPattern, activeScenario, now, cur, prev,
                   alerts, loop, hook, timers, templateLoads, injections>>

\* loadNodes(nodes, edges)
LoadNodes(ns, es) ==
    /\ nodeIdCounter' = maxLoadedId(ns, 1, 0)
    /\ nodes' = ns
    /\ edges' = es
    /\ UNCHANGED <<trafficLoad, trafficPattern, activeScenario, now, cur, prev,
                   alerts, loop, hook, timers, templateLoads, injections>>

NextIds ==
    \/ \E kind \in {"web-server", UnknownKind} : AddNode(kind)
    \/ \E i \in 1..MaxNodes : DuplicateNode(i)
    \/ \E i \in 1..MaxNodes : RemoveNode(i)
    \/ ClearCanvas
    \/ \E ns \in LoadableNodeLists : \E es \in LoadableEdgeLists(ns) : LoadNodes(ns, es)

SpecIds == InitIds /\ [][NextIds]_vars

\* C26: node ids are unique.  After any sequence of addNode, duplicateNode,
\* removeNode, clearCanvas and loadNodes of nodes with pairwise different
\* ids, no two nodes of the canvas store share an id.
C26_NodeIdsUnique ==
    \A i \in 1..Len(nodes) : \A j \in 1..Len(nodes) :
        i /= j => nodes[i].id /= nodes[j].id

\* ------------------------------------------------------------------------
\* More properties of SpecValidate: grade and verdict
\* ------------------------------------------------------------------------
\* C27: a report with grade A has no failed critical check.  For every
\* input of validate, if the grade is A then no check has outcome fail with
\* severity critical, and the verdict is not the negative one.
C27_GradeAHasNoCriticalFailure ==
    (Validated /\ cur.result.grade = "A") =>
        /\ ~HasCriticalFailure(cur.result)
        /\ cur.result.verdict.isPositive

\* ------------------------------------------------------------------------
\* SpecVerdict: computeVerdict on every score, count and tier
\* ------------------------------------------------------------------------
InitVerdict ==
    /\ nodes = <<>>
    /\ edges = <<>>
    /\ trafficLoad = 1000
    /\ trafficPattern = "steady"
    /\ activeScenario = NoScenario
    /\ now = 0
    /\ cur = NoCall
    /\ prev = NoCall
    /\ alerts = <<>>
    /\ loop = NoLoop
    /\ hook = NoHook
    /\ nodeIdCounter = Len(nodes)
    /\ timers = <<>>
    /\ templateLoads = <<>>
    /\ injections = <<>>

\* One call of computeVerdict; of the context only the tier is read.
CallComputeVerdict(overallScore, failedCriticalCount, advisoryCount, scaleTier) ==
    /\ cur = NoCall
    /\ cur' = [fn |-> "computeVerdict", overallScore |-> overallScore,
               failedCriticalCount |-> failedCriticalCount,
               advisoryCount |-> advisoryCount, scaleTier |-> scaleTier,
               result |-> computeVerdict(overallScore, failedCriticalCount, advisoryCount,
                                         [scaleTier |-> scaleTier])]
    /\ UNCHANGED <<nodes, edges, trafficLoad, trafficPattern, activeScenario, now, prev,
                   alerts, loop, hook, nodeIdCounter, timers, templateLoads, injections>>

NextVerdict ==
    \E overallScore \in 0..100 : \E failedCriticalCount \in 0..MaxCriticalCount :
        \E advisoryCount \in 0..MaxAdvisoryCount :
            \E i \in 1..Len(TIER_ORDER) :
                CallComputeVerdict(overallScore, failedCriticalCount, advisoryCount,
                                   TIER_ORDER[i])

SpecVerdict == InitVerdict /\ [][NextVerdict]_vars

\* C28: the negative verdict is reserved for critical failures.  For every
\* overallScore in 0..100 and every tier, computeVerdict called with
\* failedCriticalCount = 0 returns isPositive = TRUE and not the
\* critical-issue badge.
C28_NegativeOnlyOnCriticalFailure ==
    (cur.fn = "computeVerdict" /\ cur.failedCriticalCount = 0) =>
        /\ cur.result.isPositive
        /\ cur.result.badge /= "Critical Issues"

\* ------------------------------------------------------------------------
\* SpecRetier: reports of one graph on one metric snapshot while the traffic
\* load is raised (no tick in between: currentMetrics stays as it is)
\* ------------------------------------------------------------------------
RetierKinds == {"web-client", "web-server", "postgresql", "llm-inference"}

InitRetier ==
    /\ \E n \in 0..MaxNodes : \E ns \in NodeLists(RetierKinds, n) :
          /\ nodes \in WithOneReplicated(ns)
          /\ edges \in EdgeShapes(n)
    /\ trafficLoad \in ValidateLoads
    /\ trafficPattern = "steady"
    /\ activeScenario = NoScenario
    /\ now = 0
    /\ cur = NoCall
    /\ prev = NoCall
    /\ alerts = <<>>
    /\ loop = NoLoop
    /\ hook = NoHook
    /\ nodeIdCounter = Len(nodes)
    /\ timers = <<>>
    /\ templateLoads = <<>>
    /\ injections = <<>>

\* runValidation of the report modal: validate on the stores' nodes, edges,
\* SPOF ids, currentMetrics and trafficLoad.  currentMetrics is the snapshot
\* of the last tick, which the first report finds computed for the load of
\* that time and every later report finds unchanged.
RunValidation ==
    /\ \E metrics \in {IF cur = NoCall THEN computeMetrics(nodes, edges, trafficLoad, now)
                       ELSE cur.metrics} :
          cur' = [fn |-> "validate", nodes |-> nodes, edges |-> edges,
                  trafficLoad |-> trafficLoad, activeScenario |-> activeScenario,
                  metrics |-> metrics,
                  result |-> validate(nodes, edges,
                                      analyzeTopology(nodes, edges).spofNodeIds,
                                      metrics, trafficLoad, trafficPattern,
                                      activeScenario, now)]
    /\ prev' = cur
    /\ UNCHANGED <<nodes, edges, trafficLoad, trafficPattern, activeScenario, now, alerts, loop,
                   hook, nodeIdCounter, timers, templateLoads, injections>>

NextRetier ==
    \/ \E load \in ValidateLoads : RaiseTrafficLoad(load)
    \/ RunValidation

SpecRetier == InitRetier /\ [][NextRetier]_vars

\* Two reports of the same graph on the same metric snapshot, the later one
\* under a higher load and at a higher tier.
TierRaisedBetweenReports ==
    /\ Validated
    /\ prev.fn = "validate"
    /\ prev.nodes = cur.nodes
    /\ prev.edges = cur.edges
    /\ prev.metrics = cur.metrics
    /\ prev.trafficLoad < cur.trafficLoad
    /\ TierIndex(prev.result.context.scaleTier) < TierIndex(cur.result.context.scaleTier)

\* C29: a more demanding tier never grades the same architecture higher.
\* For the same nodes, edges, SPOF ids and metrics and no scenario, when
\* trafficLoad is raised so that the resolved tier rises, neither
\* overallScore nor the score of any dimension increases.
C29_HigherTierNeverScoresHigher ==
    TierRaisedBetweenReports =>
        /\ cur.result.overallScore <= prev.result.overallScore
        /\ Len(cur.result.dimensions) = Len(prev.result.dimensions)
        /\ \A i \in 1..Len(cur.result.dimensions) :
              cur.result.dimensions[i].score <= prev.result.dimensions[i].score

\* ------------------------------------------------------------------------
\* SpecTemplates: loadTemplate and its staggered timers
\* ------------------------------------------------------------------------
\* The first two entries of templates: "Monolith" and "Layered Monolith +
\* Cache".  sourceIdx and targetIdx count from 0.
templates ==
    <<[name |-> "Monolith",
       nodes |-> <<"web-client", "web-server", "postgresql">>,
       edges |-> <<[sourceIdx |-> 0, targetIdx |-> 1], [sourceIdx |-> 1, targetIdx |-> 2]>>],
      [name |-> "Layered Monolith + Cache",
       nodes |-> <<"web-client", "load-balancer", "web-server", "redis-cache", "postgresql">>,
       edges |-> <<[sourceIdx |-> 0, targetIdx |-> 1], [sourceIdx |-> 1, targetIdx |-> 2],
                   [sourceIdx |-> 2, targetIdx |-> 3], [sourceIdx |-> 2, targetIdx |-> 4]>>]>>

\* The delays of loadTemplate's timers, in ms.
NodeStagger == 150
EdgeDelay == 200

InitTemplates ==
    /\ nodes = <<>>
    /\ edges = <<>>
    /\ trafficLoad = 1000
    /\ trafficPattern = "steady"
    /\ activeScenario = NoScenario
    /\ now = 0
    /\ cur = NoCall
    /\ prev = NoCall
    /\ alerts = <<>>
    /\ loop = NoLoop
    /\ hook = NoHook
    /\ nodeIdCounter = Len(nodes)
    /\ timers = <<>>
    /\ templateLoads = <<>>
    /\ injections = <<>>

\* loadTemplate(templates[t]): clearCanvas, a fresh nodeIds array, and one
\* timer per node of the template.  Of each call the model also keeps which
\* of its nodes and whether its edges were put on the canvas since the last
\* clearCanvas (onCanvas, edgesOnCanvas); the code has no such record.
LoadTemplate(t) ==
    /\ Len(templateLoads) < MaxTemplateLoads
    /\ nodes' = <<>>
    /\ edges' = <<>>
    /\ nodeIdCounter' = 0
    /\ templateLoads' =
          Append([k \in 1..Len(templateLoads) |->
                     [templateLoads[k] EXCEPT !.onCanvas = {}, !.edgesOnCanvas = FALSE]],
                 [template |-> t,
                  nodeIds |-> [i \in 1..Len(templates[t].nodes) |-> Null],
                  onCanvas |-> {}, edgesOnCanvas |-> FALSE])
    /\ timers' = timers \o [i \in 1..Len(templates[t].nodes) |->
                               [fn |-> "addTemplateNode", due |-> now + (i - 1) * NodeStagger,
                                load |-> Len(templateLoads) + 1, index |-> i]]
    /\ UNCHANGED <<trafficLoad, trafficPattern, activeScenario, now, cur, prev, alerts, loop,
                   hook, injections>>

\* The callback of a node timer: addNode, nodeIds[i] = id, and after the
\* last node of the template the timer of the edges.
TemplateNodeTimerFires ==
    /\ DueTimers /= {}
    /\ timers[FirstDue].fn = "addTemplateNode"
    /\ LET timer == timers[FirstDue]
           template == templates[templateLoads[timer.load].template]
           id == createNodeId(nodeIdCounter)
       IN /\ nodeIdCounter' = incremented(nodeIdCounter)
          /\ nodes' = Append(nodes, SimNode(id, template.nodes[timer.index]))
          /\ templateLoads' =
                [templateLoads EXCEPT ![timer.load].nodeIds[timer.index] = Some(id),
                                      ![timer.load].onCanvas = @ \cup {timer.index}]
          /\ timers' =
                IF timer.index = Len(template.nodes)
                THEN Append(WithoutIndex(timers, FirstDue),
                            [fn |-> "addTemplateEdges", due |-> now + EdgeDelay,
                             load |-> timer.load, index |-> 0])
                ELSE WithoutIndex(timers, FirstDue)
    /\ UNCHANGED <<edges, trafficLoad, trafficPattern, activeScenario, now, cur, prev, alerts,
                   loop, hook, injections>>

\* addEdge of the canvas store: rfAddEdge leaves out a connection that is
\* there already.
addEdge(es, source, target) ==
    IF \E k \in 1..Len(es) : es[k].source = source /\ es[k].target = target
    THEN es
    ELSE Append(es, [source |-> source, target |-> target])

\* template.edges.forEach of the edge timer, from entry k on.
RECURSIVE addTemplateEdges(_, _, _, _)
addTemplateEdges(es, templateEdges, nodeIds, k) ==
    IF k > Len(templateEdges) THEN es
    ELSE LET source == nodeIds[templateEdges[k].sourceIdx + 1]
             target == nodeIds[templateEdges[k].targetIdx + 1]
         IN addTemplateEdges(IF source /= Null /\ target /= Null
                             THEN addEdge(es, source[1], target[1])
                             ELSE es,
                             templateEdges, nodeIds, k + 1)

\* The callback of the edge timer.
TemplateEdgeTimerFires ==
    /\ DueTimers /= {}
    /\ timers[FirstDue].fn = "addTemplateEdges"
    /\ LET load == templateLoads[timers[FirstDue].load]
       IN edges' = addTemplateEdges(edges, templates[load.template].edges, load.nodeIds, 1)
    /\ templateLoads' = [templateLoads EXCEPT ![timers[FirstDue].load].edgesOnCanvas = TRUE]
    /\ timers' = WithoutIndex(timers, FirstDue)
    /\ UNCHANGED <<nodes, trafficLoad, trafficPattern, activeScenario, now, cur, prev, alerts,
                   loop, hook, nodeIdCounter, injections>>

\* Time passes; a timer that is due runs before time passes on.
TemplateTimePasses ==
    /\ DueTimers = {}
    /\ now + TemplateStep <= MaxTemplateTime
    /\ now' = now + TemplateStep
    /\ UNCHANGED <<nodes, edges, trafficLoad, trafficPattern, activeScenario, cur, prev,
                   alerts, loop, hook, nodeIdCounter, timers, templateLoads, injections>>

NextTemplates ==
    \/ \E t \in 1..Len(templates) : LoadTemplate(t)
    \/ TemplateNodeTimerFires
    \/ TemplateEdgeTimerFires
    \/ TemplateTimePasses

SpecTemplates == InitTemplates /\ [][NextTemplates]_vars

\* The kinds of the canvas nodes, in canvas order.
CanvasKinds == [i \in 1..Len(nodes) |-> nodes[i].componentType]

\* The edges of a template between the ids its call holds.
EdgesOfLoad(load) ==
    [k \in 1..Len(templates[load.template].edges) |->
        [source |-> load.nodeIds[templates[load.template].edges[k].sourceIdx + 1][1],
         target |-> load.nodeIds[templates[load.template].edges[k].targetIdx + 1][1]]]

\* Every edge a call put on the canvas joins nodes that the same call put
\* there.
EdgesJoinOwnNodes(load) ==
    load.edgesOnCanvas =>
        \A k \in 1..Len(templates[load.template].edges) :
            LET te == templates[load.template].edges[k]
            IN (load.nodeIds[te.sourceIdx + 1] /= Null /\ load.nodeIds[te.targetIdx + 1] /= Null)
                  => (te.sourceIdx + 1 \in load.onCanvas /\ te.targetIdx + 1 \in load.onCanvas)

\* C30: overlapping template loads do not mix graphs.  Once all timers have
\* fired, the canvas holds exactly the nodes and the edges of the template
\* loaded last, and every edge created for a template joins the nodes that
\* were created for that template's source and target entries.
C30_TemplateLoadsDoNotMix ==
    (timers = <<>> /\ templateLoads /= <<>>) =>
        LET last == templateLoads[Len(templateLoads)]
        IN /\ CanvasKinds = templates[last.template].nodes
           /\ \A i \in 1..Len(last.nodeIds) : last.nodeIds[i] = Some(nodes[i].id)
           /\ edges = EdgesOfLoad(last)
           /\ \A k \in 1..Len(templateLoads) : EdgesJoinOwnNodes(templateLoads[k])

====
